---- MODULE Spec2Model ----
(***************************************************************************)
(* Token-bucket rate limiter (src/src/url_shortener/rate_limiter.py) and   *)
(* URL store with its LRU read cache (src/src/url_shortener/storage.py) of *)
(* the URL shortener.                                                      *)
(*                                                                         *)
(* Floats are modelled in fixed point: a token count is an integer number  *)
(* of sub-units (TokUnit sub-units per token), a time is an integer number *)
(* of clock ticks (TimeUnit ticks per second).  A refill rate is a ratio   *)
(* num/den of sub-units per tick; the product elapsed * refill_rate is     *)
(* rounded down to a sub-unit.                                             *)
(***************************************************************************)
EXTENDS Integers, Sequences, FiniteSets, TLC

\* ------------------------------------------------------------------------
\* Resolution and bounds
\* ------------------------------------------------------------------------
TokUnit == 2
TimeUnit == 2
MaxCap == 5
MaxRate == 2
MaxCost == 7
MaxTime == 3
MaxOps == 5
MaxRateLimit == 1
MaxWindowExtra == 1
MaxMwTime == 1
MaxReq == 2
NumThreads == 2
MaxCalls == 4
NumCodes == 3
LRU_CAPACITY == 2
MaxClicks == 1
MaxThreadCalls == 2
MaxRiders == 1
MaxDrivers == 2
MaxRides == 1
MaxRideUpdates == 4
MaxUsers == 2

Min(a, b) == IF a <= b THEN a ELSE b

\* ------------------------------------------------------------------------
\* TokenBucket as a value: pure operators over a bucket record
\* ------------------------------------------------------------------------

\* TokenBucket.__init__ for parameters that pass the two > 0 checks.
NewBucket(cap, rate, t) ==
  [capacity |-> cap, refill_rate |-> rate, tokens |-> cap, last_refill |-> t]

\* refill_rate <= 0, for a rate given as the ratio num/den (den # 0)
RateNotPositive(rate) == rate.num * rate.den <= 0

\* Mutant: a capacity of zero is accepted (< for <=).
TokenBucketInit_ZeroCapacity(cap, rate, t) ==
  IF cap < 0 THEN [raised |-> "ValueError", bucket |-> <<>>]
  ELSE IF RateNotPositive(rate) THEN [raised |-> "ValueError", bucket |-> <<>>]
  ELSE [raised |-> "none", bucket |-> <<NewBucket(cap, rate, t)>>]

\* TokenBucket(capacity, refill_rate) called at time t: the exception raised
\* ("none" if none) and the bucket constructed, as a sequence of 0 or 1.
TokenBucketInit(cap, rate, t) ==
  IF cap <= 0 THEN [raised |-> "ValueError", bucket |-> <<>>]
  ELSE IF RateNotPositive(rate) THEN [raised |-> "ValueError", bucket |-> <<>>]
  ELSE [raised |-> "none", bucket |-> <<NewBucket(cap, rate, t)>>]

\* added = elapsed * self._refill_rate
Added(b, t) == ((t - b.last_refill) * b.refill_rate.num) \div b.refill_rate.den

\* Mutant: the refill forgets to advance the timestamp, so elapsed time is
\* counted again by the next refill.
Refill_KeepStamp(b, t) ==
  [b EXCEPT !.tokens = Min(b.capacity, b.tokens + Added(b, t))]

\* TokenBucket._refill
Refill(b, t) ==
  [b EXCEPT !.tokens = Min(b.capacity, b.tokens + Added(b, t)),
            !.last_refill = t]

\* The tokens property refilling without advancing the timestamp
TokensRead_KeepStamp(b, t) ==
  [b EXCEPT !.tokens = Min(b.capacity, b.tokens + Added(b, t))]

\* The bucket the tokens property leaves behind when read at time t: under
\* the lock, _refill(), then the count is returned
TokensRead(b, t) == Refill(b, t)

\* Mutant: the last whole token is refused (> for >=).
HasTokens_Strict(b, cost) == b.tokens > cost

\* if self._tokens >= tokens
HasTokens(b, cost) == b.tokens >= cost

\* self._tokens -= tokens
Subtract(b, cost) == [b EXCEPT !.tokens = b.tokens - cost]

\* The value TokenBucket.consume returns when called at time t.
ConsumeResult(b, cost, t) == HasTokens(Refill(b, t), cost)

\* The bucket TokenBucket.consume leaves behind when called at time t.
ConsumeBucket(b, cost, t) ==
  IF HasTokens(Refill(b, t), cost) THEN Subtract(Refill(b, t), cost)
                                   ELSE Refill(b, t)

\* ------------------------------------------------------------------------
\* RateLimitMiddleware: pure helpers
\* ------------------------------------------------------------------------
None == <<"None">>
Unknown == <<"u", "n", "k", "n", "o", "w", "n">>
NoThread == 0
NoBucket == 0
NoResponse == [status_code |-> 0, retry_after |-> 0]

RECURSIVE SplitFirst(_)
\* forwarded_for.split(",")[0]
SplitFirst(s) ==
  IF s = <<>> THEN <<>>
  ELSE IF Head(s) = "," THEN <<>>
  ELSE <<Head(s)>> \o SplitFirst(Tail(s))

RECURSIVE LStrip(_)
LStrip(s) == IF s # <<>> /\ Head(s) = " " THEN LStrip(Tail(s)) ELSE s

RECURSIVE RStrip(_)
RStrip(s) ==
  IF s # <<>> /\ s[Len(s)] = " " THEN RStrip(SubSeq(s, 1, Len(s) - 1)) ELSE s

\* str.strip()
Strip(s) == RStrip(LStrip(s))

\* Mutant: the peer address takes precedence over the forwarded header.
GetClientIp_PeerFirst(request) ==
  IF request.client # None THEN request.client
  ELSE IF request.xff # None /\ request.xff # <<>>
    THEN Strip(SplitFirst(request.xff))
  ELSE Unknown

\* RateLimitMiddleware._get_client_ip; a request is [type, xff, client],
\* xff the X-Forwarded-For value or None, client the peer host or None.
GetClientIp(request) ==
  IF request.xff # None /\ request.xff # <<>>
    THEN Strip(SplitFirst(request.xff))
  ELSE IF request.client # None THEN request.client
  ELSE Unknown

\* self._refill_rate = rate_limit / window_seconds, in sub-units per tick
RefillRate(limit, window) == [num |-> limit * TokUnit, den |-> window]

\* Mutant: the window is rounded up instead of truncated.
RetryAfter_RoundUp(window) == (window + TimeUnit - 1) \div TimeUnit

\* retry_after = int(self._window_seconds)
RetryAfter(window) == window \div TimeUnit

\* RateLimitMiddleware._rate_limit_response
RateLimitResponse(window) ==
  [status_code |-> 429, retry_after |-> RetryAfter(window)]

\* Mutant: the return after the 429 response is missing, the app runs too.
AppCallsFor_NoReturn(allowed) == 1

\* __call__ after consume: a denied request returns before self._app is
\* awaited, an allowed one awaits it once.
AppCallsFor(allowed) == IF allowed THEN 1 ELSE 0

\* __call__ after consume: the response the middleware itself sends.
ResponseFor(allowed, window) ==
  IF allowed THEN NoResponse ELSE RateLimitResponse(window)

\* Mutant: reset leaves the registry as it is.
Cleared_Kept(bs) == bs

\* self._buckets.clear()
Cleared(bs) == <<>>

\* ip not in self._buckets
Absent(bs, ip) == ip \notin DOMAIN bs

\* Mutant: the key is ignored, every client gets the same bucket.
Lookup_Any(bs, ip) == bs[CHOOSE k \in DOMAIN bs : TRUE]

\* self._buckets[ip]
Lookup(bs, ip) == bs[ip]

\* ------------------------------------------------------------------------
\* storage.py: the OrderedDict cache as a sequence of [key, value] entries,
\* least recently used first; an optional value is a sequence of 0 or 1
\* ------------------------------------------------------------------------
Codes == 1..NumCodes
Urls == {"u1", "u2"}

\* short_code in _url_cache
Contains(c, k) == \E i \in DOMAIN c : c[i].key = k

\* The keys of the cache.
CKeys(c) == {c[i].key : i \in DOMAIN c}

\* _url_cache[short_code], for a key that is present
ValueOf(c, k) == c[CHOOSE i \in DOMAIN c : c[i].key = k].value

\* _url_cache.pop(short_code, None): the remaining entries
Without(c, k) == SelectSeq(c, LAMBDA e : e.key # k)

\* Mutant: move_to_end leaves the order as it is.
MoveToEnd_Noop(c, k) == c

\* _url_cache.move_to_end(short_code), for a key that is present
MoveToEnd(c, k) == Without(c, k) \o <<[key |-> k, value |-> ValueOf(c, k)]>>

\* Mutant: assigning to an existing key keeps the old value.
SetItem_KeepValue(c, k, v) ==
  IF Contains(c, k) THEN c ELSE Append(c, [key |-> k, value |-> v])

\* _url_cache[short_code] = original_url: an existing key keeps its place,
\* a new key goes to the end
SetItem(c, k, v) ==
  IF Contains(c, k)
    THEN [i \in DOMAIN c |-> IF c[i].key = k THEN [key |-> k, value |-> v] ELSE c[i]]
    ELSE Append(c, [key |-> k, value |-> v])

\* Mutant: the entry count may reach capacity + 1 before an eviction.
OverCapacity_Late(c) == Len(c) > LRU_CAPACITY + 1

\* len(_url_cache) > _LRU_CAPACITY
OverCapacity(c) == Len(c) > LRU_CAPACITY

\* _url_cache.popitem(last=False), for a non-empty cache
PopFirst(c) == Tail(c)

\* _cache_put: the cache it leaves
CachePut(c, k, v) ==
  LET c1 == IF Contains(c, k) THEN MoveToEnd(c, k) ELSE c
      c2 == SetItem(c1, k, v)
  IN IF OverCapacity(c2) THEN PopFirst(c2) ELSE c2

\* _cache_get: the value it returns (<<>> for None)
CacheGetValue(c, k) == IF ~Contains(c, k) THEN <<>> ELSE <<ValueOf(MoveToEnd(c, k), k)>>

\* Mutant: a hit leaves the order as it is.
CacheGetCache_NoMove(c, k) == c

\* _cache_get: the cache it leaves
CacheGetCache(c, k) == IF ~Contains(c, k) THEN c ELSE MoveToEnd(c, k)

\* _cache_invalidate: the cache it leaves
CacheInvalidate(c, k) == Without(c, k)

\* Mutant: clear_store forgets the cache.
ClearedCache_Kept(c) == c

\* _url_cache.clear()
ClearedCache(c) == <<>>

\* _store.get(short_code): the record, as a sequence of 0 or 1
StoreGet(st, k) == IF k \in DOMAIN st THEN <<st[k]>> ELSE <<>>

\* Mutant: a store miss is remembered in the cache.
ReadThrough_CacheNegative(c, k, record) ==
  IF record = <<>> THEN CachePut(c, k, "none")
  ELSE CachePut(c, k, record[1].original_url)

\* get_original_url_cached after a cache miss: the cache it leaves, given
\* what _store.get returned
ReadThrough(c, k, record) ==
  IF record = <<>> THEN c ELSE CachePut(c, k, record[1].original_url)

\* get_original_url_cached without its store fallback
CachedLookup_CacheOnly(c, st, k) == CacheGetValue(c, k)

\* get_original_url_cached: the value it returns (<<>> for None), the
\* cached one on a hit, else the store's
CachedLookup(c, st, k) ==
  IF CacheGetValue(c, k) # <<>> THEN CacheGetValue(c, k)
  ELSE IF StoreGet(st, k) = <<>> THEN <<>>
  ELSE <<StoreGet(st, k)[1].original_url>>

\* get_url(short_code), reduced to the original_url of the record (<<>> for
\* None)
StoreUrl(st, k) == IF StoreGet(st, k) = <<>> THEN <<>> ELSE <<StoreGet(st, k)[1].original_url>>

\* The UrlRecord save_url stores (created_at is not modelled).
NewRecord(url) == [original_url |-> url, click_count |-> 0]

\* ------------------------------------------------------------------------
\* State
\* ------------------------------------------------------------------------
VARIABLES
  clock,       \* time.monotonic(), in ticks
  tb,          \* a stand-alone TokenBucket
  nops,        \* number of calls made on tb
  lastOp,      \* the last call made on tb: "init", "consume" or "tokens"
  lastCost,    \* the cost argument of the last consume
  lastResult,  \* what the last consume returned
  quiet,       \* no time has elapsed since tb was constructed
  unitRun,     \* length of the run of consume(1) calls since construction, -1 once broken
  costSum,     \* sum of the costs of the consumes made while quiet
  allOk,       \* every consume made while quiet returned True
  emptyAt,     \* the time of the last call that left tb with 0 tokens, -1 once tokens were taken or given since
  rate_limit,      \* RateLimitMiddleware._rate_limit
  window_seconds,  \* RateLimitMiddleware._window_seconds, in ticks
  buckets,         \* RateLimitMiddleware._buckets: client key -> bucket id
  regLock,         \* RateLimitMiddleware._lock: the thread holding it
  heap,            \* the TokenBucket objects constructed so far, by id
  bLock,           \* TokenBucket._lock of each bucket: the thread holding it
  meta,            \* per bucket: key it was made for, birth time, decisions, admissions
  th,              \* per thread: position and locals of __call__
  nreq,            \* number of requests started
  last,            \* outcome of the request that completed last
  mwBuilt,         \* RateLimitMiddleware.__init__: "unbuilt", "built" or the exception it raised
  ctor,            \* the last direct TokenBucket(capacity, refill_rate) call and what it gave
  served,          \* the keys of the HTTP requests served one at a time since reset() or construction
  store,           \* storage._store: short code -> UrlRecord
  url_cache,       \* storage._url_cache
  touch,           \* per cached code: rank of its insertion and of its last put or successful get
  cres,            \* the storage call that completed last and what it gave
  cth,             \* per thread: position and locals of the storage call it is in
  rth,             \* per thread: position and locals of main.redirect_to_url
  redirects,       \* per short code: the 301 responses sent for it
  rres,            \* the response of the redirect that completed last
  riders,          \* uber_app.storage.riders: the ids registered
  drivers,         \* uber_app.storage.drivers: the ids registered
  rides,           \* uber_app.storage.rides: ride id -> ride record
  rideRes,         \* the ride request answered last and its response
  completedBy,     \* per ride: the driver_id sent by the complete request that succeeded
  users_db,        \* app.models.users_db: the ids registered
  follows,         \* app.models.follows: user id -> ids the user follows
  followers,       \* app.models.followers: user id -> ids following the user
  blocks,          \* app.models.blocks: user id -> ids the user has blocked
  socRes           \* the follow or block request answered last and its response

bvars == <<tb, nops, lastOp, lastCost, lastResult, quiet, unitRun, costSum, allOk, emptyAt>>

mvars == <<rate_limit, window_seconds, buckets, regLock, heap, bLock, meta, th, nreq, last>>

gvars == <<mwBuilt, ctor, served>>

cvars == <<store, url_cache, touch, cres, cth>>

rvars == <<rth, redirects, rres>>

uvars == <<riders, drivers, rides, rideRes, completedBy>>

svars == <<users_db, follows, followers, blocks, socRes>>

avars == <<rvars, uvars, svars>>

vars == <<clock, bvars, mvars, gvars, cvars, avars>>

Threads == 1..NumThreads

IdleThread ==
  [pc |-> "idle", req |-> None, ip |-> None, bucket |-> NoBucket, idx |-> 0]

\* What __call__ did for a request: the kind of scope, the key and bucket
\* used, what consume returned, the response sent by the middleware itself
\* and the number of times the wrapped app was invoked.
NoOutcome ==
  [type |-> "none", ip |-> None, bucket |-> NoBucket, consumed |-> "none", idx |-> 0,
   resp |-> NoResponse, appCalls |-> 0]

\* No direct TokenBucket construction has been attempted yet.
NoCtor ==
  [called |-> FALSE, capacity |-> 0, refill_rate |-> [num |-> 0, den |-> 1],
   raised |-> "none", bucket |-> <<>>]

\* No storage call has completed yet.
NoCall ==
  [op |-> "none", key |-> 0, url |-> "", result |-> <<>>, raised |-> "none",
   evicted |-> 0, evictedFirst |-> 0]

NoTouch == [first |-> 0, last |-> 0]

IdleCaller == [pc |-> "idle", op |-> "none", key |-> 0, url |-> "u1", calls |-> 0]

\* No redirect has been requested yet.
IdleRedirect == [pc |-> "idle", key |-> 0, url |-> "", n |-> 0, calls |-> 0]

NoRedirect == [key |-> 0, status |-> 0, location |-> ""]

\* Optional ids that are None.
NoDriver == 0
NoRider == 0

\* No ride request has been answered yet.
NoRideRequest == [op |-> "none", ride |-> 0, driver |-> NoDriver, rider |-> NoRider, code |-> 0]

\* No follow or block request has been answered yet.
NoSocialRequest == [op |-> "none", user |-> 0, other |-> 0, links |-> 0, code |-> 0]

\* The handlers before any request.
InitApps ==
  /\ rth = [t \in Threads |-> IdleRedirect]
  /\ redirects = [k \in Codes |-> 0]
  /\ rres = NoRedirect
  /\ riders = {}
  /\ drivers = {}
  /\ rides = <<>>
  /\ rideRes = NoRideRequest
  /\ completedBy = <<>>
  /\ users_db = {}
  /\ follows = <<>>
  /\ followers = <<>>
  /\ blocks = <<>>
  /\ socRes = NoSocialRequest

\* storage.py once imported: empty store, empty cache
InitStorage ==
  /\ store = <<>>
  /\ url_cache = <<>>
  /\ touch = [k \in Codes |-> NoTouch]
  /\ cres = NoCall
  /\ cth = [t \in Threads |-> IdleCaller]

\* ------------------------------------------------------------------------
\* Stand-alone bucket: one thread, calls separated by elapsed time
\* ------------------------------------------------------------------------
Capacities == 1..MaxCap
Rates == {[num |-> n, den |-> 1] : n \in 1..MaxRate}
Costs == (0 - MaxCost)..MaxCost

InitBucket ==
  /\ clock = 0
  /\ \E cap \in Capacities, r \in Rates : tb = NewBucket(cap, r, 0)
  /\ nops = 0
  /\ lastOp = "init"
  /\ lastCost = 0
  /\ lastResult = TRUE
  /\ quiet = TRUE
  /\ unitRun = 0
  /\ costSum = 0
  /\ allOk = TRUE
  /\ emptyAt = -1
  /\ rate_limit = 1
  /\ window_seconds = 1
  /\ buckets = <<>>
  /\ regLock = NoThread
  /\ heap = <<>>
  /\ bLock = <<>>
  /\ meta = <<>>
  /\ th = [t \in Threads |-> IdleThread]
  /\ nreq = 0
  /\ last = NoOutcome
  /\ mwBuilt = "built"
  /\ ctor = NoCtor
  /\ served = {}
  /\ InitStorage
  /\ InitApps

\* time.monotonic() advances
Tick ==
  /\ clock < MaxTime
  /\ \E d \in 1..MaxTime : clock + d <= MaxTime /\ clock' = clock + d
  /\ quiet' = FALSE
  /\ unitRun' = -1
  /\ costSum' = 0
  /\ allOk' = FALSE
  /\ UNCHANGED <<avars, cvars, tb, nops, lastOp, lastCost, lastResult, emptyAt, mvars, gvars>>

\* bucket.consume(cost)
Consume ==
  /\ nops < MaxOps
  /\ \E cost \in Costs :
       /\ tb' = ConsumeBucket(tb, cost, clock)
       /\ lastResult' = ConsumeResult(tb, cost, clock)
       /\ lastCost' = cost
       /\ unitRun' = IF unitRun >= 0 /\ cost = TokUnit THEN unitRun + 1 ELSE -1
       /\ costSum' = IF quiet THEN costSum + cost ELSE 0
       /\ allOk' = (quiet /\ allOk /\ ConsumeResult(tb, cost, clock))
       /\ emptyAt' = IF ConsumeBucket(tb, cost, clock).tokens = 0 THEN clock
                     ELSE IF ConsumeResult(tb, cost, clock) /\ cost # 0 THEN -1
                     ELSE emptyAt
  /\ nops' = nops + 1
  /\ lastOp' = "consume"
  /\ UNCHANGED <<avars, cvars, clock, quiet, mvars, gvars>>

\* bucket.tokens
ReadTokens ==
  /\ nops < MaxOps
  /\ tb' = TokensRead(tb, clock)
  /\ nops' = nops + 1
  /\ lastOp' = "tokens"
  /\ unitRun' = -1
  /\ emptyAt' = IF Refill(tb, clock).tokens = 0 THEN clock ELSE emptyAt
  /\ UNCHANGED <<avars, cvars, clock, lastCost, lastResult, quiet, costSum, allOk, mvars, gvars>>

NextBucket == Tick \/ Consume \/ ReadTokens

SpecBucket == InitBucket /\ [][NextBucket]_vars

\* ------------------------------------------------------------------------
\* RateLimitMiddleware: request threads sharing one registry
\* ------------------------------------------------------------------------
XffValues == { None, <<>>, <<" ", "a", " ", ",", "b">> }
Peers == { None, <<"b">> }
\* window_seconds values: at least one second, whole or fractional
Windows == TimeUnit..(TimeUnit + MaxWindowExtra)
HttpRequests == [type : {"http"}, xff : XffValues, client : Peers]
OtherRequests == [type : {"websocket", "lifespan"}, xff : {None}, client : {None}]
Requests == HttpRequests \cup OtherRequests

\* Mutant: every scope is treated as an HTTP request.
IsHttpScope_Always(request) == TRUE

\* scope["type"] == "http"
IsHttpScope(request) == request.type = "http"

InitMw ==
  /\ clock = 0
  /\ tb = NewBucket(1, [num |-> 1, den |-> 1], 0)
  /\ nops = 0
  /\ lastOp = "init"
  /\ lastCost = 0
  /\ lastResult = TRUE
  /\ quiet = TRUE
  /\ unitRun = 0
  /\ costSum = 0
  /\ allOk = TRUE
  /\ emptyAt = -1
  /\ rate_limit \in 1..MaxRateLimit
  /\ window_seconds \in Windows
  /\ buckets = <<>>
  /\ regLock = NoThread
  /\ heap = <<>>
  /\ bLock = <<>>
  /\ meta = <<>>
  /\ th = [t \in Threads |-> IdleThread]
  /\ nreq = 0
  /\ last = NoOutcome
  /\ mwBuilt = "built"
  /\ ctor = NoCtor
  /\ served = {}
  /\ InitStorage
  /\ InitApps

\* time.monotonic() advances while requests are in flight
MwTick ==
  /\ clock < MaxMwTime
  /\ clock' = clock + 1
  /\ UNCHANGED <<avars, cvars, bvars, mvars, gvars>>

\* __call__, scope["type"] != "http": await self._app(...); return
PassThrough(t) ==
  /\ th[t].pc = "idle"
  /\ nreq < MaxReq
  /\ \E request \in Requests :
       /\ ~IsHttpScope(request)
       /\ last' = [NoOutcome EXCEPT !.type = request.type, !.appCalls = 1]
  /\ nreq' = nreq + 1
  /\ UNCHANGED <<avars, cvars, clock, bvars, gvars, rate_limit, window_seconds, buckets, regLock, heap,
                 bLock, meta, th>>

\* __call__: request = Request(scope); client_ip = self._get_client_ip(request)
BeginHttp(t) ==
  /\ th[t].pc = "idle"
  /\ nreq < MaxReq
  /\ \E request \in Requests :
       /\ IsHttpScope(request)
       /\ th' = [th EXCEPT ![t] = [IdleThread EXCEPT !.pc = "get_bucket", !.req = request,
                                                     !.ip = GetClientIp(request)]]
  /\ nreq' = nreq + 1
  /\ UNCHANGED <<avars, cvars, clock, bvars, gvars, rate_limit, window_seconds, buckets, regLock, heap,
                 bLock, meta, last>>

\* Mutant: the registry lock excludes nobody.
RegistryLockFree_Unlocked == TRUE

\* threading.Lock of the registry can be taken
RegistryLockFree == regLock = NoThread

\* _get_or_create_bucket: with self._lock (enter)
RegAcquire(t) ==
  /\ th[t].pc = "get_bucket"
  /\ RegistryLockFree
  /\ regLock' = t
  /\ th' = [th EXCEPT ![t].pc = "reg_check", ![t].req = None]
  /\ UNCHANGED <<avars, cvars, clock, bvars, gvars, rate_limit, window_seconds, buckets, heap, bLock, meta,
                 nreq, last>>

\* _get_or_create_bucket, key present: the membership test fails, the
\* bucket is returned and the lock released.
RegFound(t) ==
  /\ th[t].pc = "reg_check"
  /\ ~Absent(buckets, th[t].ip)
  /\ th' = [th EXCEPT ![t].pc = "consume", ![t].bucket = Lookup(buckets, th[t].ip)]
  /\ regLock' = NoThread
  /\ UNCHANGED <<avars, cvars, clock, bvars, gvars, rate_limit, window_seconds, buckets, heap, bLock, meta,
                 nreq, last>>

\* _get_or_create_bucket, key absent: the membership test succeeds.
RegMissing(t) ==
  /\ th[t].pc = "reg_check"
  /\ Absent(buckets, th[t].ip)
  /\ th' = [th EXCEPT ![t].pc = "reg_create"]
  /\ UNCHANGED <<avars, cvars, clock, bvars, gvars, rate_limit, window_seconds, buckets, regLock, heap,
                 bLock, meta, nreq, last>>

\* _get_or_create_bucket: self._buckets[ip] = TokenBucket(capacity, refill_rate);
\* return self._buckets[ip]; the lock is released.
RegCreate(t) ==
  /\ th[t].pc = "reg_create"
  /\ heap' = Append(heap, NewBucket(rate_limit * TokUnit,
                                    RefillRate(rate_limit, window_seconds), clock))
  /\ bLock' = Append(bLock, NoThread)
  /\ meta' = Append(meta, [owner |-> th[t].ip, born |-> clock, seq |-> 0, admitted |-> 0])
  /\ buckets' = (th[t].ip :> (Len(heap) + 1)) @@ buckets
  /\ th' = [th EXCEPT ![t].pc = "consume", ![t].bucket = Lookup(buckets', th[t].ip)]
  /\ regLock' = NoThread
  /\ UNCHANGED <<avars, cvars, clock, bvars, gvars, rate_limit, window_seconds, nreq, last>>

\* Mutant: the bucket lock excludes nobody.
BucketLockFree_Unlocked(b) == TRUE

\* threading.Lock of bucket b can be taken
BucketLockFree(b) == bLock[b] = NoThread

\* consume: with self._lock (enter); self._refill()
BucketAcquire(t) ==
  /\ th[t].pc = "consume"
  /\ BucketLockFree(th[t].bucket)
  /\ bLock' = [bLock EXCEPT ![th[t].bucket] = t]
  /\ heap' = [heap EXCEPT ![th[t].bucket] = Refill(heap[th[t].bucket], clock)]
  /\ th' = [th EXCEPT ![t].pc = "check"]
  /\ UNCHANGED <<avars, cvars, clock, bvars, gvars, rate_limit, window_seconds, buckets, regLock, meta,
                 nreq, last>>

\* The outcome of thread t's request once consume has returned.
Outcome(t, allowed) ==
  [type |-> "http", ip |-> th[t].ip, bucket |-> th[t].bucket,
   consumed |-> IF allowed THEN "allowed" ELSE "denied",
   idx |-> IF allowed THEN th[t].idx ELSE meta[th[t].bucket].seq + 1,
   resp |-> ResponseFor(allowed, window_seconds),
   appCalls |-> AppCallsFor(allowed)]

\* consume: if self._tokens >= tokens (true)
CheckPass(t) ==
  /\ th[t].pc = "check"
  /\ HasTokens(heap[th[t].bucket], TokUnit)
  /\ meta' = [meta EXCEPT ![th[t].bucket].seq = meta[th[t].bucket].seq + 1]
  /\ th' = [th EXCEPT ![t].pc = "subtract", ![t].idx = meta[th[t].bucket].seq + 1]
  /\ UNCHANGED <<avars, cvars, clock, bvars, gvars, rate_limit, window_seconds, buckets, regLock, heap,
                 bLock, nreq, last>>

\* consume: the test fails, return False (lock released); __call__ sends the
\* 429 response and returns.
CheckFail(t) ==
  /\ th[t].pc = "check"
  /\ ~HasTokens(heap[th[t].bucket], TokUnit)
  /\ meta' = [meta EXCEPT ![th[t].bucket].seq = meta[th[t].bucket].seq + 1]
  /\ bLock' = [bLock EXCEPT ![th[t].bucket] = NoThread]
  /\ last' = Outcome(t, FALSE)
  /\ th' = [th EXCEPT ![t] = IdleThread]
  /\ UNCHANGED <<avars, cvars, clock, bvars, gvars, rate_limit, window_seconds, buckets, regLock, heap, nreq>>

\* consume: self._tokens -= tokens; return True (lock released); __call__
\* awaits the wrapped app.
DoSubtract(t) ==
  /\ th[t].pc = "subtract"
  /\ heap' = [heap EXCEPT ![th[t].bucket] = Subtract(heap[th[t].bucket], TokUnit)]
  /\ meta' = [meta EXCEPT ![th[t].bucket].admitted = meta[th[t].bucket].admitted + 1]
  /\ bLock' = [bLock EXCEPT ![th[t].bucket] = NoThread]
  /\ last' = Outcome(t, TRUE)
  /\ th' = [th EXCEPT ![t] = IdleThread]
  /\ UNCHANGED <<avars, cvars, clock, bvars, gvars, rate_limit, window_seconds, buckets, regLock, nreq>>

NextMw ==
  \/ MwTick
  \/ \E t \in Threads : PassThrough(t)
  \/ \E t \in Threads : BeginHttp(t)
  \/ \E t \in Threads : RegAcquire(t)
  \/ \E t \in Threads : RegFound(t)
  \/ \E t \in Threads : RegMissing(t)
  \/ \E t \in Threads : RegCreate(t)
  \/ \E t \in Threads : BucketAcquire(t)
  \/ \E t \in Threads : CheckPass(t)
  \/ \E t \in Threads : CheckFail(t)
  \/ \E t \in Threads : DoSubtract(t)

SpecMw == InitMw /\ [][NextMw]_vars

\* ------------------------------------------------------------------------
\* Requests, reset() calls and tokens reads made by concurrent threads
\* ------------------------------------------------------------------------

\* Mutant: leaving the with-block does not release the lock.
Unlocked_Kept(t) == t

\* The holder of a lock once thread t has left its with-block.
Unlocked(t) == NoThread

\* reset() is called; the thread is about to enter `with self._lock`.
BeginReset(t) ==
  /\ th[t].pc = "idle"
  /\ nreq < MaxReq
  /\ th' = [th EXCEPT ![t] = [IdleThread EXCEPT !.pc = "reset"]]
  /\ nreq' = nreq + 1
  /\ UNCHANGED <<avars, cvars, clock, bvars, gvars, rate_limit, window_seconds, buckets, regLock, heap,
                 bLock, meta, last>>

\* reset: with self._lock (enter)
ResetAcquire(t) ==
  /\ th[t].pc = "reset"
  /\ RegistryLockFree
  /\ regLock' = t
  /\ th' = [th EXCEPT ![t].pc = "reset_clear"]
  /\ UNCHANGED <<avars, cvars, clock, bvars, gvars, rate_limit, window_seconds, buckets, heap, bLock,
                 meta, nreq, last>>

\* reset: self._buckets.clear(); the lock is released.
ResetClear(t) ==
  /\ th[t].pc = "reset_clear"
  /\ buckets' = Cleared(buckets)
  /\ regLock' = Unlocked(t)
  /\ last' = [NoOutcome EXCEPT !.type = "reset"]
  /\ th' = [th EXCEPT ![t] = IdleThread]
  /\ UNCHANGED <<avars, cvars, clock, bvars, gvars, rate_limit, window_seconds, heap, bLock, meta, nreq>>

\* bucket.tokens is read on some bucket constructed earlier; the thread is
\* about to enter `with self._lock`.
BeginTokens(t) ==
  /\ th[t].pc = "idle"
  /\ nreq < MaxReq
  /\ \E b \in DOMAIN heap :
       th' = [th EXCEPT ![t] = [IdleThread EXCEPT !.pc = "tokens", !.bucket = b]]
  /\ nreq' = nreq + 1
  /\ UNCHANGED <<avars, cvars, clock, bvars, gvars, rate_limit, window_seconds, buckets, regLock, heap,
                 bLock, meta, last>>

\* tokens: with self._lock (enter); self._refill()
TokensAcquire(t) ==
  /\ th[t].pc = "tokens"
  /\ BucketLockFree(th[t].bucket)
  /\ bLock' = [bLock EXCEPT ![th[t].bucket] = t]
  /\ heap' = [heap EXCEPT ![th[t].bucket] = Refill(heap[th[t].bucket], clock)]
  /\ th' = [th EXCEPT ![t].pc = "tokens_return"]
  /\ UNCHANGED <<avars, cvars, clock, bvars, gvars, rate_limit, window_seconds, buckets, regLock, meta,
                 nreq, last>>

\* tokens: return self._tokens; the lock is released.
TokensReturn(t) ==
  /\ th[t].pc = "tokens_return"
  /\ bLock' = [bLock EXCEPT ![th[t].bucket] = Unlocked(t)]
  /\ last' = [NoOutcome EXCEPT !.type = "tokens", !.bucket = th[t].bucket]
  /\ th' = [th EXCEPT ![t] = IdleThread]
  /\ UNCHANGED <<avars, cvars, clock, bvars, gvars, rate_limit, window_seconds, buckets, regLock, heap,
                 meta, nreq>>

\* The steps thread t can take inside a request, a reset or a tokens read.
ThreadStep(t) ==
  \/ RegAcquire(t)
  \/ RegFound(t)
  \/ RegMissing(t)
  \/ RegCreate(t)
  \/ BucketAcquire(t)
  \/ CheckPass(t)
  \/ CheckFail(t)
  \/ DoSubtract(t)
  \/ ResetAcquire(t)
  \/ ResetClear(t)
  \/ TokensAcquire(t)
  \/ TokensReturn(t)

NextLock ==
  \/ \E t \in Threads : BeginHttp(t)
  \/ \E t \in Threads : BeginReset(t)
  \/ \E t \in Threads : BeginTokens(t)
  \/ \E t \in Threads : ThreadStep(t)

SpecLock == InitMw /\ [][NextLock]_vars

\* A thread that can take a step is eventually scheduled.
SpecLockFair == SpecLock /\ \A t \in Threads : WF_vars(ThreadStep(t))

\* ------------------------------------------------------------------------
\* The limiter one call at a time: requests, reset() and elapsed time
\* ------------------------------------------------------------------------
\* The bucket __call__ would construct for a new key at the current time.
MadeBucket ==
  TokenBucketInit(rate_limit * TokUnit, RefillRate(rate_limit, window_seconds), clock)

\* __call__ on an "http" scope, run to completion: key extraction,
\* _get_or_create_bucket, consume(), then the 429 response or the app.  An
\* exception raised by TokenBucket(...) leaves __call__ before the registry
\* is written.
CallHttp(request) ==
  LET ip == GetClientIp(request)
      isNew == Absent(buckets, ip)
      id == IF isNew THEN Len(heap) + 1 ELSE Lookup(buckets, ip)
  IN IF isNew /\ MadeBucket.raised # "none"
       THEN /\ last' = [NoOutcome EXCEPT !.type = "http", !.ip = ip,
                                         !.consumed = MadeBucket.raised]
            /\ UNCHANGED <<avars, cvars, buckets, heap, bLock, meta>>
       ELSE LET heap1 == IF isNew THEN heap \o MadeBucket.bucket ELSE heap
                meta1 == IF isNew
                           THEN Append(meta, [owner |-> ip, born |-> clock,
                                              seq |-> 0, admitted |-> 0])
                           ELSE meta
                b == Refill(heap1[id], clock)
                allowed == HasTokens(b, TokUnit)
            IN /\ buckets' = IF isNew THEN (ip :> id) @@ buckets ELSE buckets
               /\ bLock' = IF isNew THEN Append(bLock, NoThread) ELSE bLock
               /\ heap' = [heap1 EXCEPT ![id] = IF allowed THEN Subtract(b, TokUnit) ELSE b]
               /\ meta' = [meta1 EXCEPT ![id].seq = meta1[id].seq + 1,
                                        ![id].admitted =
                                          meta1[id].admitted + (IF allowed THEN 1 ELSE 0)]
               /\ last' = [type |-> "http", ip |-> ip, bucket |-> id,
                           consumed |-> IF allowed THEN "allowed" ELSE "denied",
                           idx |-> meta1[id].seq + 1,
                           resp |-> ResponseFor(allowed, window_seconds),
                           appCalls |-> AppCallsFor(allowed)]

\* RateLimitMiddleware.__call__, one request served with no other call in
\* between
Call ==
  /\ mwBuilt = "built"
  /\ nreq < MaxCalls
  /\ \E request \in Requests :
       IF ~IsHttpScope(request)
         THEN /\ last' = [NoOutcome EXCEPT !.type = request.type, !.appCalls = 1]
              /\ UNCHANGED <<avars, cvars, buckets, heap, bLock, meta, served>>
         ELSE /\ CallHttp(request)
              /\ served' = served \cup {GetClientIp(request)}
  /\ nreq' = nreq + 1
  /\ UNCHANGED <<avars, cvars, clock, bvars, mwBuilt, ctor, rate_limit, window_seconds, regLock, th>>

\* RateLimitMiddleware.reset
Reset ==
  /\ mwBuilt = "built"
  /\ nreq < MaxCalls
  /\ buckets' = Cleared(buckets)
  /\ served' = {}
  /\ last' = [NoOutcome EXCEPT !.type = "reset"]
  /\ nreq' = nreq + 1
  /\ UNCHANGED <<avars, cvars, clock, bvars, mwBuilt, ctor, rate_limit, window_seconds, regLock, heap,
                 bLock, meta, th>>

NextGate == MwTick \/ Call \/ Reset

SpecGate == InitMw /\ [][NextGate]_vars

\* ------------------------------------------------------------------------
\* Construction: TokenBucket(capacity, refill_rate) and the middleware with
\* any configuration, valid or not
\* ------------------------------------------------------------------------
CtorCapacities == (0 - MaxCap)..MaxCap
CtorRates == {[num |-> n, den |-> 1] : n \in (0 - MaxRate)..MaxRate}
CfgLimits == (0 - 1)..MaxRateLimit
CfgWindows == {0 - TimeUnit, 0} \cup Windows

InitCfg ==
  /\ clock = 0
  /\ tb = NewBucket(1, [num |-> 1, den |-> 1], 0)
  /\ nops = 0
  /\ lastOp = "init"
  /\ lastCost = 0
  /\ lastResult = TRUE
  /\ quiet = TRUE
  /\ unitRun = 0
  /\ costSum = 0
  /\ allOk = TRUE
  /\ emptyAt = -1
  /\ rate_limit = 0
  /\ window_seconds = 0
  /\ buckets = <<>>
  /\ regLock = NoThread
  /\ heap = <<>>
  /\ bLock = <<>>
  /\ meta = <<>>
  /\ th = [t \in Threads |-> IdleThread]
  /\ nreq = 0
  /\ last = NoOutcome
  /\ mwBuilt = "unbuilt"
  /\ ctor = NoCtor
  /\ served = {}
  /\ InitStorage
  /\ InitApps

\* RateLimitMiddleware.__init__: the arguments are stored unchecked; the
\* division rate_limit / window_seconds raises for a zero window.
MwInit ==
  /\ mwBuilt = "unbuilt"
  /\ \E rl \in CfgLimits, w \in CfgWindows :
       IF w = 0
         THEN mwBuilt' = "ZeroDivisionError" /\ UNCHANGED <<avars, cvars, rate_limit, window_seconds>>
         ELSE mwBuilt' = "built" /\ rate_limit' = rl /\ window_seconds' = w
  /\ UNCHANGED <<avars, cvars, clock, bvars, ctor, served, buckets, regLock, heap, bLock, meta, th,
                 nreq, last>>

\* TokenBucket(capacity, refill_rate) called directly
Construct ==
  /\ \E cap \in CtorCapacities, rate \in CtorRates :
       ctor' = [called |-> TRUE, capacity |-> cap, refill_rate |-> rate,
                raised |-> TokenBucketInit(cap, rate, clock).raised,
                bucket |-> TokenBucketInit(cap, rate, clock).bucket]
  /\ UNCHANGED <<avars, cvars, clock, bvars, mvars, mwBuilt, served>>

NextCfg == MwInit \/ MwTick \/ Call \/ Reset

SpecCfg == InitCfg /\ [][NextCfg]_vars

NextCtor == Tick \/ Construct

SpecCtor == InitCfg /\ [][NextCtor]_vars

\* ------------------------------------------------------------------------
\* storage.py, one call at a time
\* ------------------------------------------------------------------------

\* Ranks, among the cached codes K, of the insertion and last-touch stamps.
Ranked(raw, K) ==
  [j \in Codes |->
     IF j \in K
       THEN [first |-> Cardinality({i \in K : raw[i].first <= raw[j].first}),
             last |-> Cardinality({i \in K : raw[i].last <= raw[j].last})]
       ELSE NoTouch]

\* The stamps after a put or a successful get of code k took the cache from
\* c0 to c1: k is the latest touched, and the latest inserted if it is new.
Touched(tc, c0, c1, k) ==
  Ranked([tc EXCEPT ![k] = [first |-> IF k \in CKeys(c0) THEN tc[k].first
                                                        ELSE NumCodes + 1,
                            last |-> NumCodes + 1]],
         CKeys(c1))

\* The code a step from cache c0 to cache c1 removed, 0 if none.
Evicted(c0, c1) ==
  IF CKeys(c0) \subseteq CKeys(c1) THEN 0
  ELSE CHOOSE g \in CKeys(c0) \ CKeys(c1) : TRUE

\* What a call that ended in _cache_put(code, url) reports.
PutCall(op, code, url, result, c0, c1) ==
  [op |-> op, key |-> code, url |-> url, result |-> result, raised |-> "none",
   evicted |-> Evicted(c0, c1),
   evictedFirst |-> IF Evicted(c0, c1) = 0 THEN 0 ELSE touch[Evicted(c0, c1)].first]

\* storage.save_url
SaveUrl ==
  /\ \E code \in Codes, url \in Urls :
       IF code \in DOMAIN store
         THEN /\ cres' = [NoCall EXCEPT !.op = "save_url", !.key = code, !.url = url,
                                        !.raised = "ValueError"]
              /\ UNCHANGED <<store, url_cache, touch>>
         ELSE /\ store' = (code :> NewRecord(url)) @@ store
              /\ url_cache' = CachePut(url_cache, code, url)
              /\ touch' = Touched(touch, url_cache, url_cache', code)
              /\ cres' = PutCall("save_url", code, url, <<url>>, url_cache, url_cache')
  /\ UNCHANGED <<avars, clock, bvars, mvars, gvars, cth>>

\* storage.get_original_url_cached
GetOriginalUrlCached ==
  /\ \E code \in Codes :
       LET cached == CacheGetValue(url_cache, code)
           record == StoreGet(store, code)
       IN IF cached # <<>>
            THEN /\ url_cache' = CacheGetCache(url_cache, code)
                 /\ touch' = Touched(touch, url_cache, url_cache', code)
                 /\ cres' = [NoCall EXCEPT !.op = "get_original_url_cached",
                                           !.key = code,
                                           !.result = CachedLookup(url_cache, store, code)]
            ELSE IF record = <<>>
              THEN /\ cres' = [NoCall EXCEPT !.op = "get_original_url_cached",
                                             !.key = code]
                   /\ url_cache' = ReadThrough(url_cache, code, record)
                   /\ UNCHANGED touch
              ELSE /\ url_cache' = ReadThrough(url_cache, code, record)
                   /\ touch' = Touched(touch, url_cache, url_cache', code)
                   /\ cres' = PutCall("get_original_url_cached", code, "",
                                      CachedLookup(url_cache, store, code),
                                      url_cache, url_cache')
  /\ UNCHANGED <<avars, clock, bvars, mvars, gvars, store, cth>>

\* storage.increment_clicks
IncrementClicks ==
  /\ \E code \in Codes :
       IF code \notin DOMAIN store
         THEN /\ cres' = [NoCall EXCEPT !.op = "increment_clicks", !.key = code,
                                        !.raised = "KeyError"]
              /\ UNCHANGED store
         ELSE /\ store[code].click_count < MaxClicks
              /\ store' = [store EXCEPT ![code].click_count = @ + 1]
              /\ cres' = [NoCall EXCEPT !.op = "increment_clicks", !.key = code]
  /\ UNCHANGED <<avars, clock, bvars, mvars, gvars, url_cache, touch, cth>>

\* storage.clear_store
ClearStore ==
  /\ store' = <<>>
  /\ url_cache' = ClearedCache(url_cache)
  /\ touch' = Ranked(touch, CKeys(url_cache'))
  /\ cres' = [NoCall EXCEPT !.op = "clear_store"]
  /\ UNCHANGED <<avars, clock, bvars, mvars, gvars, cth>>

\* storage._cache_put called directly
CachePutOp ==
  /\ \E code \in Codes, url \in Urls :
       /\ url_cache' = CachePut(url_cache, code, url)
       /\ touch' = Touched(touch, url_cache, url_cache', code)
       /\ cres' = PutCall("_cache_put", code, url, <<>>, url_cache, url_cache')
  /\ UNCHANGED <<avars, clock, bvars, mvars, gvars, store, cth>>

\* storage._cache_get called directly
CacheGetOp ==
  /\ \E code \in Codes :
       /\ url_cache' = CacheGetCache(url_cache, code)
       /\ touch' = IF Contains(url_cache, code)
                     THEN Touched(touch, url_cache, url_cache', code)
                     ELSE touch
       /\ cres' = [NoCall EXCEPT !.op = "_cache_get", !.key = code,
                                 !.result = CacheGetValue(url_cache, code)]
  /\ UNCHANGED <<avars, clock, bvars, mvars, gvars, store, cth>>

\* storage._cache_invalidate called directly
CacheInvalidateOp ==
  /\ \E code \in Codes :
       /\ url_cache' = CacheInvalidate(url_cache, code)
       /\ touch' = Ranked(touch, CKeys(url_cache'))
       /\ cres' = [NoCall EXCEPT !.op = "_cache_invalidate", !.key = code]
  /\ UNCHANGED <<avars, clock, bvars, mvars, gvars, store, cth>>

\* The public storage calls used by the handlers and the tests.
NextStorage == SaveUrl \/ GetOriginalUrlCached \/ IncrementClicks \/ ClearStore

SpecStorage == InitCfg /\ [][NextStorage]_vars

\* The cache helpers called directly, next to the storage calls using them.
NextCacheOps ==
  \/ CachePutOp
  \/ CacheGetOp
  \/ CacheInvalidateOp
  \/ SaveUrl
  \/ GetOriginalUrlCached
  \/ ClearStore

SpecCacheOps == InitCfg /\ [][NextCacheOps]_vars

\* ------------------------------------------------------------------------
\* storage.py called from concurrent handler threads: the module takes no
\* lock, so a call is a sequence of separate dictionary operations
\* ------------------------------------------------------------------------
OtherVars == <<avars, clock, bvars, mvars, gvars, touch>>

\* Thread t can start a call.
CanCall(t) == cth[t].pc = "idle" /\ cth[t].calls < MaxThreadCalls

\* The locals of thread t once it has entered op(code, url) at position pc.
Entered(t, op, pc, code, url) ==
  [pc |-> pc, op |-> op, key |-> code, url |-> url, calls |-> cth[t].calls + 1]

\* Thread t moves to position pc inside its call.
Goto(t, pc) == cth' = [cth EXCEPT ![t].pc = pc]

\* Thread t's call ends, returning result or raising.
Leave(t, result, raised) ==
  /\ cth' = [cth EXCEPT ![t] = [IdleCaller EXCEPT !.calls = cth[t].calls]]
  /\ cres' = [NoCall EXCEPT !.op = cth[t].op, !.key = cth[t].key, !.result = result,
                            !.raised = raised]

\* redirect_to_url calls storage.get_original_url_cached(short_code)
BeginGet(t) ==
  /\ CanCall(t)
  /\ \E code \in Codes :
       cth' = [cth EXCEPT ![t] = Entered(t, "get_original_url_cached", "g_test", code, "u1")]
  /\ UNCHANGED <<OtherVars, store, url_cache, cres>>

\* shorten_url calls storage.save_url(short_code, original_url)
BeginSave(t) ==
  /\ CanCall(t)
  /\ \E code \in Codes, url \in Urls :
       cth' = [cth EXCEPT ![t] = Entered(t, "save_url", "s_test", code, url)]
  /\ UNCHANGED <<OtherVars, store, url_cache, cres>>

\* storage.clear_store() is called
BeginClear(t) ==
  /\ CanCall(t)
  /\ cth' = [cth EXCEPT ![t] = Entered(t, "clear_store", "c_store", 0, "u1")]
  /\ UNCHANGED <<OtherVars, store, url_cache, cres>>

\* _cache_get: if short_code not in _url_cache
GTest(t) ==
  /\ cth[t].pc = "g_test"
  /\ Goto(t, IF Contains(url_cache, cth[t].key) THEN "g_move" ELSE "g_store")
  /\ UNCHANGED <<OtherVars, store, url_cache, cres>>

\* _cache_get: _url_cache.move_to_end(short_code), KeyError if the key is gone
GMove(t) ==
  /\ cth[t].pc = "g_move"
  /\ IF Contains(url_cache, cth[t].key)
       THEN /\ url_cache' = MoveToEnd(url_cache, cth[t].key)
            /\ Goto(t, "g_read")
            /\ UNCHANGED cres
       ELSE /\ Leave(t, <<>>, "KeyError")
            /\ UNCHANGED url_cache
  /\ UNCHANGED <<OtherVars, store>>

\* _cache_get: return _url_cache[short_code], KeyError if the key is gone;
\* get_original_url_cached returns the cached value
GRead(t) ==
  /\ cth[t].pc = "g_read"
  /\ IF Contains(url_cache, cth[t].key)
       THEN Leave(t, <<ValueOf(url_cache, cth[t].key)>>, "none")
       ELSE Leave(t, <<>>, "KeyError")
  /\ UNCHANGED <<OtherVars, store, url_cache>>

\* get_original_url_cached, cache miss: record = _store.get(short_code)
GStore(t) ==
  /\ cth[t].pc = "g_store"
  /\ IF StoreGet(store, cth[t].key) = <<>>
       THEN Leave(t, <<>>, "none")
       ELSE /\ cth' = [cth EXCEPT ![t].pc = "p_test",
                                  ![t].url = store[cth[t].key].original_url]
            /\ UNCHANGED cres
  /\ UNCHANGED <<OtherVars, store, url_cache>>

\* save_url: if short_code in _store: raise ValueError
STest(t) ==
  /\ cth[t].pc = "s_test"
  /\ IF cth[t].key \in DOMAIN store
       THEN Leave(t, <<>>, "ValueError")
       ELSE Goto(t, "s_store") /\ UNCHANGED cres
  /\ UNCHANGED <<OtherVars, store, url_cache>>

\* save_url: _store[short_code] = record
SStore(t) ==
  /\ cth[t].pc = "s_store"
  /\ store' = [k \in DOMAIN store \cup {cth[t].key} |->
                 IF k = cth[t].key THEN NewRecord(cth[t].url) ELSE store[k]]
  /\ Goto(t, "p_test")
  /\ UNCHANGED <<OtherVars, url_cache, cres>>

\* _cache_put: if short_code in _url_cache
PTest(t) ==
  /\ cth[t].pc = "p_test"
  /\ Goto(t, IF Contains(url_cache, cth[t].key) THEN "p_move" ELSE "p_set")
  /\ UNCHANGED <<OtherVars, store, url_cache, cres>>

\* _cache_put: _url_cache.move_to_end(short_code), KeyError if the key is gone
PMove(t) ==
  /\ cth[t].pc = "p_move"
  /\ IF Contains(url_cache, cth[t].key)
       THEN /\ url_cache' = MoveToEnd(url_cache, cth[t].key)
            /\ Goto(t, "p_set")
            /\ UNCHANGED cres
       ELSE /\ Leave(t, <<>>, "KeyError")
            /\ UNCHANGED url_cache
  /\ UNCHANGED <<OtherVars, store>>

\* _cache_put: _url_cache[short_code] = original_url
PSet(t) ==
  /\ cth[t].pc = "p_set"
  /\ url_cache' = SetItem(url_cache, cth[t].key, cth[t].url)
  /\ Goto(t, "p_len")
  /\ UNCHANGED <<OtherVars, store, cres>>

\* _cache_put: if len(_url_cache) > _LRU_CAPACITY; the call returns if not
PLen(t) ==
  /\ cth[t].pc = "p_len"
  /\ IF OverCapacity(url_cache)
       THEN Goto(t, "p_pop") /\ UNCHANGED cres
       ELSE Leave(t, <<cth[t].url>>, "none")
  /\ UNCHANGED <<OtherVars, store, url_cache>>

\* _cache_put: _url_cache.popitem(last=False), KeyError if the cache is empty
PPop(t) ==
  /\ cth[t].pc = "p_pop"
  /\ IF url_cache = <<>>
       THEN Leave(t, <<>>, "KeyError") /\ UNCHANGED url_cache
       ELSE Leave(t, <<cth[t].url>>, "none") /\ url_cache' = PopFirst(url_cache)
  /\ UNCHANGED <<OtherVars, store>>

\* clear_store: _store.clear()
CStore(t) ==
  /\ cth[t].pc = "c_store"
  /\ store' = <<>>
  /\ Goto(t, "c_cache")
  /\ UNCHANGED <<OtherVars, url_cache, cres>>

\* clear_store: _url_cache.clear()
CCache(t) ==
  /\ cth[t].pc = "c_cache"
  /\ url_cache' = ClearedCache(url_cache)
  /\ Leave(t, <<>>, "none")
  /\ UNCHANGED <<OtherVars, store>>

NextStorageConc ==
  \/ \E t \in Threads : BeginGet(t)
  \/ \E t \in Threads : BeginSave(t)
  \/ \E t \in Threads : BeginClear(t)
  \/ \E t \in Threads : GTest(t)
  \/ \E t \in Threads : GMove(t)
  \/ \E t \in Threads : GRead(t)
  \/ \E t \in Threads : GStore(t)
  \/ \E t \in Threads : STest(t)
  \/ \E t \in Threads : SStore(t)
  \/ \E t \in Threads : PTest(t)
  \/ \E t \in Threads : PMove(t)
  \/ \E t \in Threads : PSet(t)
  \/ \E t \in Threads : PLen(t)
  \/ \E t \in Threads : PPop(t)
  \/ \E t \in Threads : CStore(t)
  \/ \E t \in Threads : CCache(t)

SpecStorageConc == InitCfg /\ [][NextStorageConc]_vars

\* ------------------------------------------------------------------------
\* main.redirect_to_url called from concurrent handler threads: the lookup,
\* then increment_clicks as its membership test, its read of click_count
\* and its write of click_count + 1
\* ------------------------------------------------------------------------

\* Thread t can take a request.
CanRedirect(t) == rth[t].pc = "idle" /\ rth[t].calls < MaxThreadCalls

\* Thread t is inside increment_clicks(k).
Incrementing(t, k) == rth[t].key = k /\ rth[t].pc \in {"inc_test", "inc_read", "inc_write"}

\* The response of thread t's redirect.
Responded(t, status, location) ==
  /\ rth' = [rth EXCEPT ![t] = [IdleRedirect EXCEPT !.calls = rth[t].calls]]
  /\ rres' = [key |-> rth[t].key, status |-> status, location |-> location]

\* shorten_url: _generate_short_code() draws a code the store does not hold,
\* then storage.save_url(short_code, original_url)
ShortenUrl(t) ==
  /\ CanRedirect(t)
  /\ \E code \in Codes \ DOMAIN store, url \in Urls :
       /\ store' = (code :> NewRecord(url)) @@ store
       /\ url_cache' = CachePut(url_cache, code, url)
       /\ touch' = Touched(touch, url_cache, url_cache', code)
       /\ cres' = PutCall("save_url", code, url, <<url>>, url_cache, url_cache')
  /\ rth' = [rth EXCEPT ![t].calls = @ + 1]
  /\ UNCHANGED <<uvars, svars, clock, bvars, mvars, gvars, cth, redirects, rres>>

\* redirect_to_url(short_code) is entered
BeginRedirect(t) ==
  /\ CanRedirect(t)
  /\ \E code \in Codes :
       rth' = [rth EXCEPT ![t] = [IdleRedirect EXCEPT !.pc = "lookup", !.key = code,
                                                     !.calls = rth[t].calls + 1]]
  /\ UNCHANGED <<uvars, svars, clock, bvars, mvars, gvars, cvars, redirects, rres>>

\* original_url = storage.get_original_url_cached(short_code), and the 404
\* when it is None
RedirectLookup(t) ==
  /\ rth[t].pc = "lookup"
  /\ LET code == rth[t].key
         cached == CacheGetValue(url_cache, code)
         record == StoreGet(store, code)
     IN IF cached # <<>>
          THEN /\ url_cache' = CacheGetCache(url_cache, code)
               /\ touch' = Touched(touch, url_cache, url_cache', code)
               /\ cres' = [NoCall EXCEPT !.op = "get_original_url_cached",
                                         !.key = code, !.result = cached]
               /\ rth' = [rth EXCEPT ![t].pc = "inc_test", ![t].url = cached[1]]
               /\ UNCHANGED rres
          ELSE IF record = <<>>
            THEN /\ cres' = [NoCall EXCEPT !.op = "get_original_url_cached",
                                           !.key = code]
                 /\ url_cache' = ReadThrough(url_cache, code, record)
                 /\ UNCHANGED touch
                 /\ Responded(t, 404, "")
            ELSE /\ url_cache' = ReadThrough(url_cache, code, record)
                 /\ touch' = Touched(touch, url_cache, url_cache', code)
                 /\ cres' = PutCall("get_original_url_cached", code, "",
                                    <<record[1].original_url>>, url_cache, url_cache')
                 /\ rth' = [rth EXCEPT ![t].pc = "inc_test",
                                       ![t].url = record[1].original_url]
                 /\ UNCHANGED rres
  /\ UNCHANGED <<uvars, svars, clock, bvars, mvars, gvars, store, cth, redirects>>

\* increment_clicks: if short_code not in _store: raise KeyError
IncTest(t) ==
  /\ rth[t].pc = "inc_test"
  /\ IF rth[t].key \in DOMAIN store
       THEN rth' = [rth EXCEPT ![t].pc = "inc_read"] /\ UNCHANGED rres
       ELSE Responded(t, 500, "")
  /\ UNCHANGED <<uvars, svars, clock, bvars, mvars, gvars, cvars, redirects>>

\* increment_clicks: the read of _store[short_code]["click_count"]
IncRead(t) ==
  /\ rth[t].pc = "inc_read"
  /\ IF rth[t].key \in DOMAIN store
       THEN /\ rth' = [rth EXCEPT ![t].pc = "inc_write",
                                  ![t].n = store[rth[t].key].click_count]
            /\ UNCHANGED rres
       ELSE Responded(t, 500, "")
  /\ UNCHANGED <<uvars, svars, clock, bvars, mvars, gvars, cvars, redirects>>

\* increment_clicks: the write of the value read plus one into the record,
\* then return RedirectResponse(url=original_url, status_code=301)
IncWrite(t) ==
  /\ rth[t].pc = "inc_write"
  /\ store' = IF rth[t].key \in DOMAIN store
                THEN [store EXCEPT ![rth[t].key].click_count = rth[t].n + 1]
                ELSE store
  /\ redirects' = [redirects EXCEPT ![rth[t].key] = @ + 1]
  /\ Responded(t, 301, rth[t].url)
  /\ UNCHANGED <<uvars, svars, clock, bvars, mvars, gvars, url_cache, touch, cres, cth>>

NextRedirect ==
  \/ \E t \in Threads : ShortenUrl(t)
  \/ \E t \in Threads : BeginRedirect(t)
  \/ \E t \in Threads : RedirectLookup(t)
  \/ \E t \in Threads : IncTest(t)
  \/ \E t \in Threads : IncRead(t)
  \/ \E t \in Threads : IncWrite(t)

SpecRedirect == InitCfg /\ [][NextRedirect]_vars

\* ------------------------------------------------------------------------
\* uber_app: riders, drivers and the ride lifecycle, one request at a time.
\* Ids are uuid4 strings in the program: the n-th id made is n here. A ride
\* record keeps the fields a handler writes after create_ride; updated_at is
\* the number of writes made to the record.
\* ------------------------------------------------------------------------
RiderIds == 1..MaxRiders
DriverIds == 1..MaxDrivers
RideIds == 1..MaxRides

OtherRideVars == <<rvars, svars, clock, bvars, mvars, gvars, cvars>>

\* storage.rides.get(ride_id)
RideGet(ride_id) == IF ride_id \in DOMAIN rides THEN <<rides[ride_id]>> ELSE <<>>

\* ride_data as create_ride builds it
NewRide(rider_id) ==
  [rider_id |-> rider_id, driver_id |-> NoDriver, status |-> "requested", updated_at |-> 0]

\* ride["status"] != "requested", never true
NotRequested_Never(ride) == FALSE

\* ride["status"] != "requested"
NotRequested(ride) == ride.status # "requested"

\* ride["status"] != "accepted"
NotAccepted(ride) == ride.status # "accepted"

\* The record after accept_ride's three assignments.
RideAccepted(ride, driver_id) ==
  [ride EXCEPT !.driver_id = driver_id, !.status = "accepted", !.updated_at = @ + 1]

\* The record after complete_ride's two assignments.
RideCompleted(ride) == [ride EXCEPT !.status = "completed", !.updated_at = @ + 1]

\* The record after a rider's cancel.
RideCancelled(ride) == [ride EXCEPT !.status = "cancelled", !.updated_at = @ + 1]

\* The record after a driver's cancel, the driver kept
RideReverted_KeepDriver(ride) ==
  [ride EXCEPT !.status = "requested", !.updated_at = @ + 1]

\* The record after a driver's cancel.
RideReverted(ride) ==
  [ride EXCEPT !.status = "requested", !.driver_id = NoDriver, !.updated_at = @ + 1]

\* A handler may write ride_id's record once more.
CanUpdate(ride_id) ==
  ride_id \in DOMAIN rides => rides[ride_id].updated_at < MaxRideUpdates

\* The request is answered with code, the store left as it is.
RideRefused(op, ride_id, driver_id, rider_id, code) ==
  /\ rideRes' = [op |-> op, ride |-> ride_id, driver |-> driver_id, rider |-> rider_id,
                 code |-> code]
  /\ UNCHANGED <<rides, completedBy>>

\* The request is answered 200 with ride_id's record replaced by ride.
RideUpdated(op, ride_id, driver_id, rider_id, ride) ==
  /\ CanUpdate(ride_id)
  /\ rideRes' = [op |-> op, ride |-> ride_id, driver |-> driver_id, rider |-> rider_id,
                 code |-> 200]
  /\ rides' = [rides EXCEPT ![ride_id] = ride]

\* riders.create_rider
CreateRider ==
  /\ Cardinality(riders) < MaxRiders
  /\ riders' = riders \cup {Cardinality(riders) + 1}
  /\ UNCHANGED <<OtherRideVars, drivers, rides, rideRes, completedBy>>

\* drivers.create_driver
CreateDriver ==
  /\ Cardinality(drivers) < MaxDrivers
  /\ drivers' = drivers \cup {Cardinality(drivers) + 1}
  /\ UNCHANGED <<OtherRideVars, riders, rides, rideRes, completedBy>>

\* rides.create_ride
CreateRide ==
  /\ Len(rides) < MaxRides
  /\ \E rider_id \in RiderIds :
       IF rider_id \notin riders
         THEN RideRefused("create", 0, NoDriver, rider_id, 404)
         ELSE /\ rides' = Append(rides, NewRide(rider_id))
              /\ completedBy' = Append(completedBy, NoDriver)
              /\ rideRes' = [op |-> "create", ride |-> Len(rides) + 1, driver |-> NoDriver,
                             rider |-> rider_id, code |-> 201]
  /\ UNCHANGED <<OtherRideVars, riders, drivers>>

\* rides.accept_ride
AcceptRide ==
  /\ \E ride_id \in RideIds, driver_id \in DriverIds :
       /\ LET ride == RideGet(ride_id)
          IN IF ride = <<>>
               THEN RideRefused("accept", ride_id, driver_id, NoRider, 404)
             ELSE IF NotRequested(ride[1])
               THEN RideRefused("accept", ride_id, driver_id, NoRider, 409)
             ELSE IF driver_id \notin drivers
               THEN RideRefused("accept", ride_id, driver_id, NoRider, 404)
             ELSE /\ RideUpdated("accept", ride_id, driver_id, NoRider,
                                 RideAccepted(ride[1], driver_id))
                  /\ UNCHANGED completedBy
  /\ UNCHANGED <<OtherRideVars, riders, drivers>>

\* rides.complete_ride
CompleteRide ==
  /\ \E ride_id \in RideIds, driver_id \in DriverIds :
       /\ LET ride == RideGet(ride_id)
          IN IF ride = <<>>
               THEN RideRefused("complete", ride_id, driver_id, NoRider, 404)
             ELSE IF NotAccepted(ride[1])
               THEN RideRefused("complete", ride_id, driver_id, NoRider, 409)
             ELSE IF ride[1].driver_id # driver_id
               THEN RideRefused("complete", ride_id, driver_id, NoRider, 403)
             ELSE /\ RideUpdated("complete", ride_id, driver_id, NoRider,
                                 RideCompleted(ride[1]))
                  /\ completedBy' = [completedBy EXCEPT ![ride_id] = driver_id]
  /\ UNCHANGED <<OtherRideVars, riders, drivers>>

\* rides.rider_cancel_ride
RiderCancelRide ==
  /\ \E ride_id \in RideIds :
       /\ LET ride == RideGet(ride_id)
          IN IF ride = <<>>
               THEN RideRefused("rider-cancel", ride_id, NoDriver, NoRider, 404)
             ELSE IF NotRequested(ride[1])
               THEN RideRefused("rider-cancel", ride_id, NoDriver, NoRider, 409)
             ELSE /\ RideUpdated("rider-cancel", ride_id, NoDriver, NoRider,
                                 RideCancelled(ride[1]))
                  /\ UNCHANGED completedBy
  /\ UNCHANGED <<OtherRideVars, riders, drivers>>

\* rides.driver_cancel_ride with no body, or with a body naming neither a
\* rider nor a driver
DriverCancelRide ==
  /\ \E ride_id \in RideIds :
       /\ LET ride == RideGet(ride_id)
          IN IF ride = <<>>
               THEN RideRefused("cancel", ride_id, NoDriver, NoRider, 404)
             ELSE IF NotAccepted(ride[1])
               THEN RideRefused("cancel", ride_id, NoDriver, NoRider, 409)
             ELSE /\ RideUpdated("cancel", ride_id, NoDriver, NoRider,
                                 RideReverted(ride[1]))
                  /\ UNCHANGED completedBy
  /\ UNCHANGED <<OtherRideVars, riders, drivers>>

\* rides.driver_cancel_ride with a body naming a rider, a driver or both: the
\* rider_id decides first
BodyCancelRide ==
  /\ \E ride_id \in RideIds, driver_id \in DriverIds \cup {NoDriver},
        rider_id \in RiderIds \cup {NoRider} :
       /\ driver_id # NoDriver \/ rider_id # NoRider
       /\ LET ride == RideGet(ride_id)
          IN IF ride = <<>>
               THEN RideRefused("cancel", ride_id, driver_id, rider_id, 404)
             ELSE IF rider_id # NoRider
               THEN IF NotRequested(ride[1])
                      THEN RideRefused("cancel", ride_id, driver_id, rider_id, 409)
                      ELSE /\ RideUpdated("cancel", ride_id, driver_id, rider_id,
                                          RideCancelled(ride[1]))
                           /\ UNCHANGED completedBy
             ELSE IF NotAccepted(ride[1])
               THEN RideRefused("cancel", ride_id, driver_id, rider_id, 409)
             ELSE /\ RideUpdated("cancel", ride_id, driver_id, rider_id,
                                 RideReverted(ride[1]))
                  /\ UNCHANGED completedBy
  /\ UNCHANGED <<OtherRideVars, riders, drivers>>

NextRides ==
  \/ CreateRider
  \/ CreateDriver
  \/ CreateRide
  \/ AcceptRide
  \/ CompleteRide
  \/ RiderCancelRide
  \/ DriverCancelRide
  \/ BodyCancelRide

SpecRides == InitCfg /\ [][NextRides]_vars

\* ------------------------------------------------------------------------
\* app: the social graph (follows, followers, blocks), one request at a
\* time. Ids are uuid4 strings in the program: the n-th id made is n here.
\* ------------------------------------------------------------------------
UserIds == 1..MaxUsers

OtherSocialVars == <<rvars, uvars, clock, bvars, mvars, gvars, cvars>>

\* d.get(k, set())
DictGet(d, k) == IF k \in DOMAIN d THEN d[k] ELSE {}

\* d.setdefault(k, set())
SetDefault(d, k) == IF k \in DOMAIN d THEN d ELSE (k :> {}) @@ d

\* d.setdefault(k, set()).add(v)
DictAdd(d, k, v) == [SetDefault(d, k) EXCEPT ![k] = @ \cup {v}]

\* d.setdefault(k, set()).discard(v)
DictDiscard(d, k, v) == [SetDefault(d, k) EXCEPT ![k] = @ \ {v}]

\* follows after block_user, the blocked user's own follow kept
FollowsAfterBlock_OneWay(f, user_id, blocked_user_id) ==
  SetDefault(DictDiscard(f, user_id, blocked_user_id), blocked_user_id)

\* follows after block_user: both discards
FollowsAfterBlock(f, user_id, blocked_user_id) ==
  DictDiscard(DictDiscard(f, user_id, blocked_user_id), blocked_user_id, user_id)

\* followers after block_user: both discards
FollowersAfterBlock(f, user_id, blocked_user_id) ==
  DictDiscard(DictDiscard(f, blocked_user_id, user_id), user_id, blocked_user_id)

\* follow_user's block check: the follower blocked the user, or the user
\* blocked the follower
IsBlockedPair(user_id, follower_id) ==
  \/ user_id \in DictGet(blocks, follower_id)
  \/ follower_id \in DictGet(blocks, user_id)

\* The number of follow links between a and b recorded in follows.
Links(a, b) ==
  (IF b \in DictGet(follows, a) THEN 1 ELSE 0) + (IF a \in DictGet(follows, b) THEN 1 ELSE 0)

\* The request is answered with code.
SocialAnswer(op, user_id, other, code) ==
  socRes' = [op |-> op, user |-> user_id, other |-> other, links |-> Links(user_id, other),
             code |-> code]

\* users.register_user
RegisterUser ==
  /\ Cardinality(users_db) < MaxUsers
  /\ users_db' = users_db \cup {Cardinality(users_db) + 1}
  /\ UNCHANGED <<OtherSocialVars, follows, followers, blocks, socRes>>

\* follows.follow_user
FollowUser ==
  /\ \E user_id \in UserIds, follower_id \in UserIds :
       IF user_id \notin users_db \/ follower_id \notin users_db
         THEN SocialAnswer("follow", user_id, follower_id, 404)
              /\ UNCHANGED <<follows, followers>>
       ELSE IF follower_id = user_id
         THEN SocialAnswer("follow", user_id, follower_id, 400)
              /\ UNCHANGED <<follows, followers>>
       ELSE IF IsBlockedPair(user_id, follower_id)
         THEN SocialAnswer("follow", user_id, follower_id, 403)
              /\ UNCHANGED <<follows, followers>>
       ELSE IF user_id \in DictGet(follows, follower_id)
         THEN SocialAnswer("follow", user_id, follower_id, 400)
              /\ UNCHANGED <<follows, followers>>
       ELSE /\ follows' = DictAdd(follows, follower_id, user_id)
            /\ followers' = DictAdd(followers, user_id, follower_id)
            /\ SocialAnswer("follow", user_id, follower_id, 200)
  /\ UNCHANGED <<OtherSocialVars, users_db, blocks>>

\* follows.unfollow_user
UnfollowUser ==
  /\ \E user_id \in UserIds, follower_id \in UserIds :
       IF user_id \notin users_db \/ follower_id \notin users_db
         THEN SocialAnswer("unfollow", user_id, follower_id, 404)
              /\ UNCHANGED <<follows, followers>>
       ELSE IF user_id \notin DictGet(follows, follower_id)
         THEN SocialAnswer("unfollow", user_id, follower_id, 400)
              /\ UNCHANGED <<follows, followers>>
       ELSE /\ follows' = DictDiscard(follows, follower_id, user_id)
            /\ followers' = DictDiscard(followers, user_id, follower_id)
            /\ SocialAnswer("unfollow", user_id, follower_id, 200)
  /\ UNCHANGED <<OtherSocialVars, users_db, blocks>>

\* blocks.block_user
BlockUser ==
  /\ \E user_id \in UserIds, blocked_user_id \in UserIds :
       IF user_id \notin users_db \/ blocked_user_id \notin users_db
         THEN SocialAnswer("block", user_id, blocked_user_id, 404)
              /\ UNCHANGED <<follows, followers, blocks>>
       ELSE IF user_id = blocked_user_id
         THEN SocialAnswer("block", user_id, blocked_user_id, 400)
              /\ UNCHANGED <<follows, followers, blocks>>
       ELSE IF blocked_user_id \in DictGet(blocks, user_id)
         THEN SocialAnswer("block", user_id, blocked_user_id, 400)
              /\ UNCHANGED <<follows, followers, blocks>>
       ELSE /\ blocks' = DictAdd(blocks, user_id, blocked_user_id)
            /\ follows' = FollowsAfterBlock(follows, user_id, blocked_user_id)
            /\ followers' = FollowersAfterBlock(followers, user_id, blocked_user_id)
            /\ SocialAnswer("block", user_id, blocked_user_id, 200)
  /\ UNCHANGED <<OtherSocialVars, users_db>>

\* blocks.unblock_user
UnblockUser ==
  /\ \E user_id \in UserIds, blocked_user_id \in UserIds :
       IF user_id \notin users_db
         THEN SocialAnswer("unblock", user_id, blocked_user_id, 404)
              /\ UNCHANGED blocks
       ELSE IF blocked_user_id \notin DictGet(blocks, user_id)
         THEN SocialAnswer("unblock", user_id, blocked_user_id, 400)
              /\ UNCHANGED blocks
       ELSE /\ blocks' = DictDiscard(blocks, user_id, blocked_user_id)
            /\ SocialAnswer("unblock", user_id, blocked_user_id, 200)
  /\ UNCHANGED <<OtherSocialVars, users_db, follows, followers>>

NextSocial ==
  \/ RegisterUser
  \/ FollowUser
  \/ UnfollowUser
  \/ BlockUser
  \/ UnblockUser

SpecSocial == InitCfg /\ [][NextSocial]_vars

\* ------------------------------------------------------------------------
\* Properties of the stand-alone TokenBucket (SpecBucket)
\* ------------------------------------------------------------------------

\* The token count a consume or a tokens read sees after its lazy refill.
Refilled == Min(tb.capacity,
                tb.tokens + ((clock - tb.last_refill) * tb.refill_rate.num)
                              \div tb.refill_rate.den)

\* A step that is a call of consume.
IsConsumeStep == nops' = nops + 1 /\ lastOp' = "consume"

\* C1: in every reachable state of a TokenBucket, whatever cost consume was
\* given, the stored token count satisfies 0 <= tokens <= capacity.
C1_TokensWithinCapacity == 0 <= tb.tokens /\ tb.tokens <= tb.capacity

\* C2: with no time elapsing, a fresh bucket answers True to exactly
\* floor(capacity) consecutive consume(1) calls and False to the next one:
\* the k-th call of the run succeeds exactly when k <= floor(capacity).
C2_FreshBucketAllowsFloorCapacity ==
  unitRun >= 1 => (lastResult <=> unitRun <= tb.capacity \div TokUnit)

\* C2 witness: a bucket of fractional capacity has just refused the call
\* that follows its floor(capacity) admitted ones.
C2_Witness ==
  /\ tb.capacity % TokUnit # 0
  /\ tb.capacity > TokUnit
  /\ unitRun = (tb.capacity \div TokUnit) + 1
  /\ ~lastResult

\* C9: consume(cost) refills, returns True exactly when the refilled count
\* is >= cost and then takes exactly cost, returns False otherwise; with no
\* time elapsing, consumes whose costs sum to exactly capacity all succeed
\* and a further consume of positive cost fails.
C9_ConsumeContract ==
  [][IsConsumeStep =>
       /\ lastResult' <=> (Refilled >= lastCost')
       /\ tb'.tokens = IF lastResult' THEN Refilled - lastCost' ELSE Refilled
       /\ (quiet' /\ costSum' = tb.capacity) => allOk'
       /\ (quiet /\ allOk /\ costSum = tb.capacity /\ lastCost' > 0) => ~lastResult'
    ]_vars

\* C10: on a bucket whose token count is below the cost, with no time
\* elapsing, consume returns False and leaves the token count unchanged.
C10_DenialLeavesTokensUnchanged ==
  [][(IsConsumeStep /\ clock = tb.last_refill /\ tb.tokens < lastCost')
       => (~lastResult' /\ tb'.tokens = tb.tokens)]_vars

\* The time elapsed since the bucket was last empty.
SinceEmpty == clock - emptyAt

QuietSince(b) == clock = meta[b].born

\* Thread t is inside consume on bucket b, between lock and unlock.
InConsume(t, b) == th[t].bucket = b /\ th[t].pc \in {"check", "subtract"}

\* Thread t holds a bucket returned by _get_or_create_bucket.
HasBucket(t) == th[t].bucket # NoBucket

\* C3: concurrent consume(1) calls on one bucket are atomic: with no time
\* elapsing, the calls that returned True never outnumber the tokens the
\* bucket started with, and the tokens went down by one per successful call.
C3_ConsumeAtomic ==
  \A b \in DOMAIN heap :
    QuietSince(b) =>
      /\ meta[b].admitted * TokUnit <= heap[b].capacity
      /\ heap[b].tokens >= 0
      /\ (\A t \in Threads : ~InConsume(t, b))
           => heap[b].tokens = heap[b].capacity - meta[b].admitted * TokUnit

\* C3 witness: one thread is between the test and the subtraction while
\* another thread waits for the lock of the same bucket.
C3_Witness ==
  \E t1, t2 \in Threads :
    /\ t1 # t2
    /\ th[t1].pc = "subtract"
    /\ th[t2].pc = "consume"
    /\ th[t1].bucket = th[t2].bucket
    /\ heap[th[t1].bucket].tokens = TokUnit
    /\ QuietSince(th[t1].bucket)

\* C4: concurrent first requests of one key create exactly one bucket and
\* all receive it; the registry maps each key to at most one bucket.
C4_OneBucketPerKey ==
  /\ \A b1, b2 \in DOMAIN meta : meta[b1].owner = meta[b2].owner => b1 = b2
  /\ \A k \in DOMAIN buckets : meta[buckets[k]].owner = k
  /\ \A t \in Threads : HasBucket(t) => th[t].bucket = buckets[th[t].ip]
  /\ \A t1, t2 \in Threads :
       (HasBucket(t1) /\ HasBucket(t2) /\ th[t1].ip = th[t2].ip)
         => th[t1].bucket = th[t2].bucket

\* C4 witness: the first two requests ever made carry the same unseen key,
\* overlap in _get_or_create_bucket and both come out with a bucket.
C4_Witness ==
  \E t1, t2 \in Threads :
    /\ t1 # t2
    /\ th[t1].ip = th[t2].ip
    /\ th[t1].pc = "consume"
    /\ th[t2].pc = "consume"
    /\ nreq = 2
    /\ last = NoOutcome

\* C5: an HTTP request reaches the wrapped app only when consume returned
\* True, and then exactly once; when consume returned False the answer is
\* the 429 response and the app is not invoked.
C5_GateBeforeDownstream ==
  last.type = "http" =>
    /\ last.consumed \in {"allowed", "denied"}
    /\ last.consumed = "denied" => (last.resp.status_code = 429 /\ last.appCalls = 0)
    /\ last.consumed = "allowed" => (last.resp = NoResponse /\ last.appCalls = 1)
    /\ last.bucket = buckets[last.ip]

\* C5 witness: a request was answered 429 without reaching the app, after
\* an earlier request of the same key had been passed on.
C5_Witness ==
  /\ last.type = "http"
  /\ last.consumed = "denied"
  /\ last.resp.status_code = 429
  /\ last.appCalls = 0
  /\ meta[last.bucket].admitted >= 1

C7_PerClientIsolation ==
  [][/\ \A b \in DOMAIN heap :
          heap'[b] # heap[b] =>
            \E t \in Threads :
              th'[t] # th[t] /\ th[t].bucket = b /\ th[t].ip = meta[b].owner
     /\ \A t \in Threads :
          (th[t].pc = "check" /\ th'[t].pc = "idle") =>
            /\ last'.consumed = "denied"
            /\ meta[th[t].bucket].owner = th[t].ip
            /\ heap[th[t].bucket].tokens < TokUnit
    ]_vars

\* C7 witness: key A's bucket has been drained to zero, and the request
\* completed last, the first of another key, was admitted on its own bucket.
C7_Witness ==
  \E a \in DOMAIN heap :
    /\ heap[a].tokens = 0
    /\ meta[a].admitted >= 1
    /\ last.type = "http"
    /\ last.consumed = "allowed"
    /\ last.bucket # a
    /\ last.ip # meta[a].owner
    /\ meta[last.bucket].seq = 1

\* The first comma-separated entry of a header value: its longest prefix
\* without a comma.
FirstEntry(h) ==
  LET n == CHOOSE i \in 0..Len(h) :
             /\ \A j \in 1..i : h[j] # ","
             /\ (i = Len(h) \/ h[i + 1] = ",")
  IN SubSeq(h, 1, n)

\* A string without its leading and trailing blanks.
Trimmed(s) ==
  LET solid == {i \in 1..Len(s) : s[i] # " "} IN
    IF solid = {} THEN <<>>
    ELSE SubSeq(s, CHOOSE i \in solid : \A j \in solid : i <= j,
                   CHOOSE i \in solid : \A j \in solid : i >= j)

\* Two requests whose extracted keys differ never share a bucket.
DistinctKeysDistinctBuckets ==
  \A t1, t2 \in Threads :
    (HasBucket(t1) /\ HasBucket(t2) /\ th[t1].ip # th[t2].ip)
      => th[t1].bucket # th[t2].bucket

\* C8 as stated: whenever the request carries an X-Forwarded-For header the
\* key is its first entry, trimmed; otherwise the peer address; otherwise
\* "unknown"; requests with different keys never share a bucket.
C8_KeyFromAnyForwardedHeader ==
  /\ \A t \in Threads :
       th[t].pc = "get_bucket" =>
         th[t].ip = IF th[t].req.xff # None THEN Trimmed(FirstEntry(th[t].req.xff))
                    ELSE IF th[t].req.client # None THEN th[t].req.client
                    ELSE Unknown
  /\ DistinctKeysDistinctBuckets

\* C8 amended: the forwarded header decides only when its value is not
\* empty; an absent or empty header falls back to the peer address, then to
\* "unknown"; requests with different keys never share a bucket.
C8_KeyFromNonEmptyForwardedHeader ==
  /\ \A t \in Threads :
       th[t].pc = "get_bucket" =>
         th[t].ip = IF th[t].req.xff # None /\ Len(th[t].req.xff) > 0
                      THEN Trimmed(FirstEntry(th[t].req.xff))
                    ELSE IF th[t].req.client # None THEN th[t].req.client
                    ELSE Unknown
  /\ DistinctKeysDistinctBuckets

\* C8 witness: a request with both a multi-entry forwarded header and a
\* peer address is keyed by the header's first entry, while a request keyed
\* by that peer address holds a bucket of its own.
C8_Witness ==
  \E t1, t2 \in Threads :
    /\ th[t1].pc = "get_bucket"
    /\ th[t1].req.xff = <<" ", "a", " ", ",", "b">>
    /\ th[t1].req.client = <<"b">>
    /\ th[t1].ip = <<"a">>
    /\ HasBucket(t2)
    /\ th[t2].ip = <<"b">>

\* A step in which __call__ served a scope without entering the gate.
IsPassThroughStep == nreq' = nreq + 1 /\ th' = th

\* C15: a scope whose type is not "http" never enters the gate: it is
\* handed to the wrapped app once, with no response of the middleware's
\* own, and the registry, every bucket and every lock stay as they were;
\* only "http" scopes get a key and a bucket.
C15_NonHttpBypassesGate ==
  [][/\ \A t \in Threads :
          (th[t].pc = "idle" /\ th'[t].pc = "get_bucket") => th'[t].req.type = "http"
     /\ IsPassThroughStep =>
          /\ last'.type \in {"websocket", "lifespan"}
          /\ last'.appCalls = 1
          /\ last'.bucket = NoBucket
          /\ last'.consumed = "none"
          /\ last'.resp = NoResponse
          /\ UNCHANGED <<buckets, heap, meta, regLock, bLock>>
    ]_vars

\* C15 witness: a WebSocket scope was passed to the app while a bucket of
\* the registry held less than one token.
C15_Witness ==
  /\ last.type = "websocket"
  /\ last.appCalls = 1
  /\ \E k \in DOMAIN buckets : heap[buckets[k]].tokens < TokUnit

\* ------------------------------------------------------------------------
\* Properties of reset() (SpecGate)
\* ------------------------------------------------------------------------

\* C16: reset() leaves the registry empty, and the first request of a key
\* since the last reset is served from a bucket constructed for it by that
\* request: it is that bucket's first decision, it is admitted, and the
\* bucket is left with rate_limit - 1 tokens, whatever bucket the key had
\* before the reset.
C16_ResetGivesFreshBuckets ==
  [][/\ (nreq' = nreq + 1 /\ last'.type = "reset") => DOMAIN buckets' = {}
     /\ (nreq' = nreq + 1 /\ last'.type = "http" /\ last'.ip \notin served) =>
          /\ last'.bucket \notin DOMAIN heap
          /\ last'.bucket \in DOMAIN heap'
          /\ buckets'[last'.ip] = last'.bucket
          /\ last'.idx = 1
          /\ last'.consumed = "allowed"
          /\ heap'[last'.bucket].capacity = rate_limit * TokUnit
          /\ heap'[last'.bucket].tokens = (rate_limit - 1) * TokUnit
    ]_vars

\* C16 witness: a key whose earlier bucket was drained and had refused a
\* request was admitted on a new bucket after a reset.
C16_Witness ==
  /\ last.type = "http"
  /\ last.consumed = "allowed"
  /\ last.idx = 1
  /\ \E a \in DOMAIN heap :
       /\ a # last.bucket
       /\ meta[a].owner = last.ip
       /\ meta[a].seq > meta[a].admitted
       /\ heap[a].tokens < TokUnit

\* ------------------------------------------------------------------------
\* Properties of construction (SpecCtor, SpecCfg)
\* ------------------------------------------------------------------------

\* C12: TokenBucket(capacity, refill_rate) raises ValueError and yields no
\* bucket exactly when capacity <= 0 or refill_rate <= 0; otherwise it
\* raises nothing and yields a bucket whose tokens equal its capacity.
C12_ConstructionValidated ==
  ctor.called =>
    IF ctor.capacity <= 0 \/ ctor.refill_rate.num <= 0
      THEN ctor.raised = "ValueError" /\ ctor.bucket = <<>>
      ELSE /\ ctor.raised = "none"
           /\ Len(ctor.bucket) = 1
           /\ ctor.bucket[1].capacity = ctor.capacity
           /\ ctor.bucket[1].tokens = ctor.capacity
           /\ ctor.bucket[1].refill_rate = ctor.refill_rate

\* C12 witness: a construction with capacity 0 and a positive rate was
\* refused.
C12_Witness ==
  /\ ctor.called
  /\ ctor.capacity = 0
  /\ ctor.refill_rate.num > 0
  /\ ctor.raised = "ValueError"

\* C13: a middleware given rate_limit <= 0 or window_seconds <= 0 is never
\* built, and no request ever ends with a configuration error.
C13_InvalidConfigRejectedAtConstruction ==
  /\ mwBuilt = "built" => (rate_limit > 0 /\ window_seconds > 0)
  /\ last.consumed # "ValueError"
\* ------------------------------------------------------------------------
\* Lock discipline (SpecLockFair)
\* ------------------------------------------------------------------------

\* The number of locks thread t holds.
LocksHeld(t) ==
  (IF regLock = t THEN 1 ELSE 0) + Cardinality({b \in DOMAIN bLock : bLock[b] = t})

\* Thread t is waiting to enter a with-block.
Waiting(t) == th[t].pc \in {"get_bucket", "consume", "reset", "tokens"}

LockDiscipline ==
  \A t \in Threads :
    /\ LocksHeld(t) <= 1
    /\ Waiting(t) => LocksHeld(t) = 0
    /\ th[t].pc = "idle" => LocksHeld(t) = 0

NoDeadlock ==
  (\E t \in Threads : th[t].pc # "idle") => (\E t \in Threads : ENABLED ThreadStep(t))

\* C14: a thread never holds more than one lock and holds none while it
\* waits for one (the registry lock is released before the bucket lock is
\* taken); whenever a request, a tokens read or a reset() is in progress
\* some thread can take a step, and every such operation that has begun
\* completes.
C14_NoDeadlock ==
  /\ [](LockDiscipline /\ NoDeadlock)
  /\ \A t \in Threads : (th[t].pc # "idle") ~> (th[t].pc = "idle")

\* C14 witness: one thread holds the registry lock inside reset() while the
\* other holds a bucket lock inside consume.
C14_Witness ==
  \E t, u \in Threads :
    /\ th[t].pc = "reset_clear"
    /\ th[u].pc \in {"check", "subtract"}
    /\ regLock = t
    /\ bLock[th[u].bucket] = u
\* ------------------------------------------------------------------------
\* Properties of the LRU cache (SpecCacheOps) and of the store (SpecStorage)
\* ------------------------------------------------------------------------

\* C17: after any sequence of put, get, invalidate, save_url,
\* get_original_url_cached and clear_store the cache holds at most
\* capacity entries, one per code.
C17_CacheSizeBounded ==
  /\ Len(url_cache) <= LRU_CAPACITY
  /\ Cardinality(CKeys(url_cache)) = Len(url_cache)

\* C17 witness: a put into a full cache has just evicted an entry and left
\* the cache full.
C17_Witness ==
  /\ cres.op = "_cache_put"
  /\ cres.evicted # 0
  /\ Len(url_cache) = LRU_CAPACITY

\* C18: eviction is strictly least-recently-used.  A put of a new code into
\* a full cache removes exactly the cached code whose last touch (put or
\* successful get) is the oldest and adds the new one; a put into a cache
\* that is not full removes nothing; a get or a put of a cached code
\* removes nothing.
C18_StrictLru ==
  [][LET K == CKeys(url_cache)
         K1 == CKeys(url_cache')
     IN cres'.op \in {"_cache_put", "_cache_get", "save_url", "get_original_url_cached"} =>
          /\ (K1 \ K # {} /\ Cardinality(K) = LRU_CAPACITY) =>
               \E v \in K :
                 /\ K1 = (K \ {v}) \cup (K1 \ K)
                 /\ Cardinality(K1 \ K) = 1
                 /\ \A j \in K : touch[v].last <= touch[j].last
                 /\ \A j \in K \ {v} : ValueOf(url_cache', j) = ValueOf(url_cache, j)
          /\ (K1 \ K # {} /\ Cardinality(K) < LRU_CAPACITY) => K \subseteq K1
          /\ K1 \ K = {} => K1 = K
    ]_vars

\* C18 witness: a put evicted an entry that was not the earliest inserted
\* one, because an earlier inserted entry had been touched since (put a,
\* put b, get a, put c evicts b).
C18_Witness ==
  /\ cres.op = "_cache_put"
  /\ cres.evicted # 0
  /\ cres.evictedFirst > 1

\* C19: after any sequence of save_url, get_original_url_cached,
\* increment_clicks and clear_store, every cached code is in the store and
\* its cached value is the store's original_url.
C19_CacheAgreesWithStore ==
  \A i \in DOMAIN url_cache :
    /\ url_cache[i].key \in DOMAIN store
    /\ url_cache[i].value = store[url_cache[i].key].original_url

\* C19 witness: the cache is full, a cached code has been clicked, and a
\* stored code is no longer cached.
C19_Witness ==
  /\ Len(url_cache) = LRU_CAPACITY
  /\ \E i \in DOMAIN url_cache : store[url_cache[i].key].click_count > 0
  /\ \E k \in DOMAIN store : ~Contains(url_cache, k)
\* Thread t is inside _cache_put, between the insertion and the eviction.
InPut(t) == cth[t].pc \in {"p_len", "p_pop"}

\* C20: with get_original_url_cached, save_url and clear_store called from
\* concurrent threads, no cache operation raises (a get whose key is
\* removed after its membership test included) and the cache holds at most
\* capacity entries whenever no thread is between an insertion and its
\* eviction.
C20_CacheOpsAtomic ==
  /\ cres.raised # "KeyError"
  /\ (\A t \in Threads : ~InPut(t)) => Len(url_cache) <= LRU_CAPACITY
\* A step that is a call of get_original_url_cached on a code not cached.
IsReadMiss ==
  /\ cres'.op = "get_original_url_cached"
  /\ ~Contains(url_cache, cres'.key)

\* C21: get_original_url_cached on a code absent from cache and store
\* returns None and leaves the cache, contents and order, as it was; on a
\* cache miss with a store hit it returns the store's original_url and
\* leaves it cached in the most-recently-used position.
C21_NoNegativeCaching ==
  [][IsReadMiss =>
       IF cres'.key \notin DOMAIN store
         THEN /\ cres'.result = <<>>
              /\ cres'.raised = "none"
              /\ url_cache' = url_cache
         ELSE /\ cres'.result = <<store[cres'.key].original_url>>
              /\ url_cache' # <<>>
              /\ url_cache'[Len(url_cache')] =
                   [key |-> cres'.key, value |-> store[cres'.key].original_url]
    ]_vars

\* C21 witness: a read of a stored code that had been evicted has put it
\* back as the most recently used entry, evicting another.
C21_Witness ==
  /\ cres.op = "get_original_url_cached"
  /\ cres.evicted # 0
  /\ cres.result # <<>>
  /\ url_cache[Len(url_cache)].key = cres.key
\* The entries of cache c other than code k's, in their order.
Others(c, k) == SelectSeq(c, LAMBDA e : e.key # k)

\* C22: _cache_get of a cached code returns its value and moves the code
\* to the most-recently-used position, keeping every value, the set of
\* codes and the order of the other entries; _cache_get of a code that is
\* not cached returns None without raising and changes nothing.
C22_CacheGet ==
  [][cres'.op = "_cache_get" =>
       IF Contains(url_cache, cres'.key)
         THEN /\ cres'.result = <<ValueOf(url_cache, cres'.key)>>
              /\ Len(url_cache') = Len(url_cache)
              /\ url_cache'[Len(url_cache')] =
                   [key |-> cres'.key, value |-> ValueOf(url_cache, cres'.key)]
              /\ Others(url_cache', cres'.key) = Others(url_cache, cres'.key)
         ELSE /\ cres'.result = <<>>
              /\ cres'.raised = "none"
              /\ url_cache' = url_cache
    ]_vars

\* C22 witness: a get has moved the earliest inserted entry of a full cache
\* to the most-recently-used position.
C22_Witness ==
  /\ cres.op = "_cache_get"
  /\ cres.result # <<>>
  /\ Len(url_cache) = LRU_CAPACITY
  /\ url_cache[Len(url_cache)].key = cres.key
  /\ touch[cres.key].first = 1

\* C23: _cache_put of a code that is already cached stores the new value,
\* moves the code to the most-recently-used position, keeps the number of
\* entries and the other entries, and evicts nothing, also when the cache
\* is full.
C23_PutExisting ==
  [][(cres'.op = "_cache_put" /\ Contains(url_cache, cres'.key)) =>
       /\ Len(url_cache') = Len(url_cache)
       /\ url_cache'[Len(url_cache')] = [key |-> cres'.key, value |-> cres'.url]
       /\ Others(url_cache', cres'.key) = Others(url_cache, cres'.key)
       /\ cres'.evicted = 0
    ]_vars

\* C23 witness: a put has replaced the value of the earliest inserted entry
\* of a full cache, different from the stored one, and nothing was evicted.
C23_Witness ==
  /\ cres.op = "_cache_put"
  /\ cres.evicted = 0
  /\ Len(url_cache) = LRU_CAPACITY
  /\ url_cache[Len(url_cache)] = [key |-> cres.key, value |-> cres.url]
  /\ touch[cres.key].first = 1
  /\ cres.key \in DOMAIN store
  /\ store[cres.key].original_url # cres.url

\* ------------------------------------------------------------------------
\* Properties of the redirect handler (SpecRedirect)
\* ------------------------------------------------------------------------

\* No thread is inside increment_clicks(k).
Settled(k) == \A t \in Threads : ~Incrementing(t, k)

\* The stored click_count of every code is the number of 301 responses sent
\* for it.
ClicksMatchRedirects ==
  \A k \in DOMAIN store : Settled(k) => store[k].click_count = redirects[k]

\* Thread t answers its lookup of a code the store does not hold.
IsUnknownLookup(t) == rth[t].pc = "lookup" /\ rth'[t].pc # "lookup"
                      /\ rth[t].key \notin DOMAIN store

\* Thread t completes increment_clicks.
IsIncrement(t) == rth[t].pc = "inc_write" /\ rth'[t].pc = "idle"

\* C24: the click_count of every stored code equals the number of successful
\* redirects made for it since it was saved, whether the lookup was served
\* from the cache or from the store; a redirect of an unknown code answers
\* 404 and changes no count; increment_clicks changes neither the cache nor
\* any original_url.
C24_ClicksCountRedirects ==
  [][/\ ClicksMatchRedirects'
     /\ \A t \in Threads :
          /\ IsUnknownLookup(t) =>
               /\ rres'.status = 404
               /\ store' = store
               /\ redirects' = redirects
          /\ IsIncrement(t) =>
               /\ url_cache' = url_cache
               /\ DOMAIN store' = DOMAIN store
               /\ \A k \in DOMAIN store :
                    store'[k].original_url = store[k].original_url]_vars

\* ------------------------------------------------------------------------
\* Properties of the ride lifecycle (SpecRides)
\* ------------------------------------------------------------------------

\* The step answers a ride request.
IsRideRequest == rideRes' # rideRes \/ rides' # rides

\* The step answers a ride request of kind op for a stored ride.
IsRideCall(op) == IsRideRequest /\ rideRes'.op = op /\ rideRes'.ride \in DOMAIN rides

\* The status change of a ride from record a to record b is one of the
\* documented edges, made by the request that goes with it.
IsRideEdge(a, b) ==
  \/ /\ a.status = "requested" /\ b.status = "accepted"
     /\ rideRes'.op = "accept"
     /\ rideRes'.driver \in drivers
     /\ b.driver_id = rideRes'.driver
  \/ /\ a.status = "accepted" /\ b.status = "completed"
     /\ rideRes'.op = "complete"
     /\ rideRes'.driver = a.driver_id
  \/ /\ a.status = "accepted" /\ b.status = "requested"
     /\ rideRes'.op = "cancel" /\ rideRes'.rider = NoRider
     /\ b.driver_id = NoDriver
  \/ /\ a.status = "requested" /\ b.status = "cancelled"
     /\ \/ rideRes'.op = "rider-cancel"
        \/ rideRes'.op = "cancel" /\ rideRes'.rider # NoRider

\* The request answered by the step was refused with code, the rides left
\* as they were.
RefusedWith(code) == rideRes'.code = code /\ rides' = rides

\* C25: a ride is created requested and its status changes only along
\* requested -> accepted (accept by an existing driver), accepted ->
\* completed (complete by the assigned driver, 403 for another),
\* accepted -> requested (driver cancel, the driver cleared) and
\* requested -> cancelled (rider cancel); any other attempted transition is
\* answered 409 and leaves the ride as it was, so a completed or cancelled
\* ride never changes again.
C25_RideStatusEdges ==
  [][/\ \A r \in DOMAIN rides' :
          IF r \notin DOMAIN rides
            THEN rides'[r].status = "requested" /\ rideRes'.op = "create"
            ELSE /\ rides[r].status # rides'[r].status => IsRideEdge(rides[r], rides'[r])
                 /\ rides[r].status = rides'[r].status => rides'[r] = rides[r]
                 /\ rides[r].status \in {"completed", "cancelled"} => rides'[r] = rides[r]
     /\ DOMAIN rides \subseteq DOMAIN rides'
     /\ IsRideCall("accept") /\ rides[rideRes'.ride].status # "requested"
          => RefusedWith(409)
     /\ IsRideCall("complete") /\ rides[rideRes'.ride].status # "accepted"
          => RefusedWith(409)
     /\ IsRideCall("complete") /\ rides[rideRes'.ride].status = "accepted"
                               /\ rides[rideRes'.ride].driver_id # rideRes'.driver
          => RefusedWith(403)
     /\ IsRideCall("rider-cancel") /\ rides[rideRes'.ride].status # "requested"
          => RefusedWith(409)
     /\ IsRideCall("cancel") /\ rideRes'.rider = NoRider
                             /\ rides[rideRes'.ride].status # "accepted"
          => RefusedWith(409)
     /\ IsRideCall("cancel") /\ rideRes'.rider # NoRider
                             /\ rides[rideRes'.ride].status # "requested"
          => RefusedWith(409)]_vars

\* A request on a completed ride was refused with 409.
C25_Witness ==
  /\ rideRes.code = 409
  /\ rideRes.ride \in DOMAIN rides
  /\ rides[rideRes.ride].status = "completed"

\* C30: a ride has a driver exactly when it is accepted or completed:
\* driver_id is None on every requested or cancelled ride, the id of a
\* registered driver on every accepted or completed ride, and on a completed
\* ride the driver who completed it.
C30_DriverAssignedWhenActive ==
  \A r \in DOMAIN rides :
    /\ rides[r].driver_id # NoDriver <=> rides[r].status \in {"accepted", "completed"}
    /\ rides[r].status \in {"accepted", "completed"} => rides[r].driver_id \in drivers
    /\ rides[r].status = "completed" => rides[r].driver_id = completedBy[r]

\* A ride given back by its driver was accepted again and completed.
C30_Witness ==
  \E r \in DOMAIN rides :
    /\ rides[r].status = "completed"
    /\ rides[r].updated_at >= 4
    /\ rideRes.op = "complete" /\ rideRes.code = 200

\* ------------------------------------------------------------------------
\* Properties of the social graph (SpecSocial)
\* ------------------------------------------------------------------------

\* No follow link, in follows or in followers, joins a user and a user they
\* have blocked.
NoFollowAcrossBlock ==
  \A a \in UserIds, b \in UserIds :
    b \in DictGet(blocks, a) =>
      /\ b \notin DictGet(follows, a) /\ a \notin DictGet(follows, b)
      /\ b \notin DictGet(followers, a) /\ a \notin DictGet(followers, b)

\* The step answers a follow or block request of kind op.
IsSocialCall(op) ==
  /\ socRes' # socRes \/ <<follows, followers, blocks>>' # <<follows, followers, blocks>>
  /\ socRes'.op = op

\* C26: if A has blocked B then neither follows the other: block_user
\* removes the follow links of both directions from follows and from
\* followers, and follow_user answers 403 and changes no store while either
\* of the two users has blocked the other.
C26_BlockExcludesFollow ==
  [][/\ NoFollowAcrossBlock'
     /\ IsSocialCall("block") /\ socRes'.code = 200 =>
          LET a == socRes'.user
              b == socRes'.other
          IN /\ b \in DictGet(blocks', a)
             /\ b \notin DictGet(follows', a) /\ a \notin DictGet(follows', b)
             /\ b \notin DictGet(followers', a) /\ a \notin DictGet(followers', b)
     /\ IsSocialCall("follow")
          /\ \/ socRes'.other \in DictGet(blocks, socRes'.user)
             \/ socRes'.user \in DictGet(blocks, socRes'.other)
          => /\ socRes'.code = 403
             /\ UNCHANGED <<users_db, follows, followers, blocks>>]_vars

\* A user blocked another while each followed the other.
C26_Witness == socRes.op = "block" /\ socRes.code = 200 /\ socRes.links = 2

\* ------------------------------------------------------------------------
\* The cache as an overlay of the store (SpecStorage)
\* ------------------------------------------------------------------------

\* C27: in every state and for every short code, get_original_url_cached
\* returns what the store lookup returns, the stored original_url or None,
\* whatever the cache holds or has evicted; so did the call made last.
C27_CacheTransparent ==
  /\ \A k \in Codes : CachedLookup(url_cache, store, k) = StoreUrl(store, k)
  /\ cres.op = "get_original_url_cached" => cres.result = StoreUrl(store, cres.key)

\* C27 witness: the last call read a stored code's URL while another stored
\* code is no longer cached.
C27_Witness ==
  /\ cres.op = "get_original_url_cached"
  /\ cres.result # <<>>
  /\ \E k \in DOMAIN store : ~Contains(url_cache, k)

\* ------------------------------------------------------------------------
\* The tokens property and later decisions (SpecBucket)
\* ------------------------------------------------------------------------

\* A step that is a read of the tokens property.
IsTokensStep == nops' = nops + 1 /\ lastOp' = "tokens"

\* C28: from any bucket state, a tokens read at t1 followed by
\* consume(cost) at t2 >= t1 returns what consume(cost) at t2 alone returns
\* and leaves the same bucket (token count and timestamp): the refill made
\* in two steps equals the refill made in one.
C28_TokensReadChangesNoDecision ==
  [][IsTokensStep =>
       \A d \in 0..MaxTime, cost \in Costs :
         /\ ConsumeResult(tb', cost, clock + d) = ConsumeResult(tb, cost, clock + d)
         /\ ConsumeBucket(tb', cost, clock + d) = ConsumeBucket(tb, cost, clock + d)]_vars

\* C28 witness: a tokens read made after time has elapsed refilled the
\* bucket in part, so that a later consume refills it further.
C28_Witness ==
  /\ lastOp = "tokens"
  /\ clock > 0
  /\ tb.last_refill = clock
  /\ tb.tokens > 0
  /\ tb.tokens < tb.capacity
  /\ clock < MaxTime

\* ------------------------------------------------------------------------
\* Requests racing with reset() (SpecLock)
\* ------------------------------------------------------------------------

\* The bucket thread t holds is the one the registry maps its key to.
HoldsRegistered(t) ==
  /\ ~Absent(buckets, th[t].ip)
  /\ Lookup(buckets, th[t].ip) = th[t].bucket

\* Thread t's consume decides in this step: the test of the tokens against
\* the cost is made on the bucket it holds.
ConsumeDecides(t) == th[t].pc = "check" /\ th'[t].pc # "check"

\* C29: whenever consume decides a request, admitting or denying it, the
\* bucket it decides on is the bucket the registry maps the request's key to
\* at that moment, under every interleaving of requests with reset().
C29_ConsumeOnRegisteredBucket ==
  [][\A t \in Threads : ConsumeDecides(t) => HoldsRegistered(t)]_vars

====
